---- MODULE Spec2Model ----
(***************************************************************************)
(* Model of the Vedic-astrology core of kundali-ai: chart building         *)
(* (KundaliCalculator / KundaliEngine), nakshatra resolution, derived      *)
(* facts (DoshaCalculator, HouseCalculator), the Vimshottari Dasha         *)
(* timeline and the report / question pipelines that call them.           *)
(*                                                                         *)
(* Angles are exact integers in units of 1/300 degree.  In this unit a     *)
(* sign (30 deg) is 9000, a nakshatra (360/27 deg) is 4000, a pada is      *)
(* 1000 and 0.01 deg is 3, so every floor / mod of the source is exact     *)
(* and round(x, 2) never meets a tie.                                      *)
(***************************************************************************)
EXTENDS Integers, Sequences, FiniteSets, TLC

VARIABLES
    pc,         \* position of the request being served
    chart,      \* KundaliChart built by KundaliEngine.generate
    doshas,     \* List[Dosha] of DoshaCalculator.calculate
    strengths,  \* Dict[int, HouseStrength] of HouseCalculator.calculate
    context,    \* dashas / dosha_analysis computed by the report pipelines
    transit,    \* TransitChart of TransitEngine.calculate
    gochar,     \* Gochar of GocharCalculator.calculate
    nk,         \* NakshatraCalculator.calculate: input and result
    vd,         \* calculate_vimshottari_dasha: input and result
    birth,      \* BirthInput handed to KundaliEngine.generate
    error,      \* exception the last generate call ended with, if any
    mt,         \* MatchingService.calculate_ashta_koot: input and result
    rl,         \* RuleEngine.evaluate / RuleMatcher.match: input and result
    tz,         \* KundaliCalculator.calculate for a timezone string: input and result
    dv,         \* DivisionalBuilder.build: input chart and result
    ss,         \* calculate_sade_sati: input and result
    ts,         \* TransitService.get_current calls and the transit cache
    billing     \* BillingService: the usage log and the requests in flight

vars ==
    <<pc, chart, doshas, strengths, context, transit, gochar, nk, vd, birth,
      error, mt, rl, tz, dv, ss, ts, billing>>

None == "None"

(***************************************************************************)
(* Bounds of the model                                                     *)
(***************************************************************************)
\* offsets (in 1/300 deg) sampled on each side of a sign boundary
MaxOff == 1
\* offsets (in 1/300 deg) sampled on each side of a nakshatra/pada boundary
MaxNakOff == 1
\* whole degrees sampled beyond each end of the latitude and longitude ranges
MaxGeoOff == 1
\* clauses in one rule tree
MaxClauses == 2
\* whole hours of the civil day sampled as birth times
MaxCivilHours == 4

\* half TTLs of clock time the transit cache is followed for
MaxHalfTTLs == 4

\* requests of one user in flight at once
MaxRequests == 3

(***************************************************************************)
(* Program constants, in model units                                       *)
(***************************************************************************)
FullCircle == 108000     \* 360 deg
SignSpan == 9000         \* 30 deg
NAKSHATRA_SPAN == 4000   \* 360 / 27 deg
Hundredth == 3           \* 0.01 deg, the grain of round(x, 2)

signs ==
    << "Aries", "Taurus", "Gemini", "Cancer", "Leo", "Virgo", "Libra",
       "Scorpio", "Sagittarius", "Capricorn", "Aquarius", "Pisces" >>

Signs == { signs[i] : i \in 1..12 }

\* signs.index(s), 0-based
SignIndexOf == [ s \in Signs |-> (CHOOSE i \in 1..12 : signs[i] = s) - 1 ]

SignIndex(s) == SignIndexOf[s]

\* signs[i], 0-based; Python raises IndexError past the end
SignAt(i) == IF i \in 0..11 THEN signs[i + 1] ELSE "IndexError"

\* nakshatra names of KundaliCalculator._calculate_nakshatra
nakshatras ==
    << "Ashwini", "Bharani", "Krittika", "Rohini", "Mrigashira", "Ardra",
       "Punarvasu", "Pushya", "Ashlesha", "Magha", "Purva Phalguni",
       "Uttara Phalguni", "Hasta", "Chitra", "Swati", "Vishakha",
       "Anuradha", "Jyeshtha", "Mula", "Purva Ashadha", "Uttara Ashadha",
       "Shravana", "Dhanishta", "Shatabhisha", "Purva Bhadrapada",
       "Uttara Bhadrapada", "Revati" >>

\* nakshatra names of the NakshatraCalculator module
NAKSHATRAS ==
    << "Ashwini", "Bharani", "Krittika", "Rohini", "Mrigashirsha",
       "Ardra", "Punarvasu", "Pushya", "Ashlesha",
       "Magha", "Purva Phalguni", "Uttara Phalguni", "Hasta",
       "Chitra", "Swati", "Vishakha", "Anuradha", "Jyeshtha",
       "Mula", "Purva Ashadha", "Uttara Ashadha", "Shravana",
       "Dhanishta", "Shatabhisha", "Purva Bhadrapada",
       "Uttara Bhadrapada", "Revati" >>

\* the eight bodies asked of the ephemeris, in planet_mapping order
planet_mapping ==
    << "Sun", "Moon", "Mars", "Mercury", "Jupiter", "Venus", "Saturn", "Rahu" >>

Bodies == { planet_mapping[i] : i \in 1..Len(planet_mapping) }

\* insertion order of the planets dict once Ketu is added
PlanetOrder == planet_mapping \o << "Ketu" >>

PlanetNames == Bodies \cup {"Ketu"}

\* round(x, 2) of an angle: nearest multiple of 0.01 deg
Round2(x) ==
    LET r == x % Hundredth
    IN  IF 2 * r > Hundredth THEN x + (Hundredth - r) ELSE x - r

(***************************************************************************)
(* KundaliCalculator._calculate_nakshatra                                  *)
(***************************************************************************)
CalculateNakshatra(degree) ==
    LET normalized_degree == degree % FullCircle
        \* int(normalized_degree / nakshatra_span): the quotient of an exact
        \* multiple rounds to the whole number
        index == normalized_degree \div NAKSHATRA_SPAN
        remaining_degree == normalized_degree - (index * NAKSHATRA_SPAN)
        pada_span == NAKSHATRA_SPAN \div 4
        \* index * nakshatra_span is a whole number of degrees only when index
        \* is a multiple of 3; otherwise the double product lies above the
        \* exact one, remaining_degree falls just short of a pada boundary
        \* and int() truncates to the pada below
        short == /\ index % 3 # 0
                 /\ remaining_degree > 0
                 /\ remaining_degree % pada_span = 0
        pada == IF short
                THEN remaining_degree \div pada_span
                ELSE (remaining_degree \div pada_span) + 1
    IN  IF index + 1 \in 1..Len(nakshatras)
        THEN << nakshatras[index + 1], pada >>
        ELSE << "IndexError", pada >>

(***************************************************************************)
(* KundaliCalculator._calculate_ascendant                                  *)
(***************************************************************************)
CalculateAscendant(tropical_asc, ayanamsa) ==
    LET sidereal_asc == (tropical_asc - ayanamsa) % FullCircle
        degree == sidereal_asc
        sign_index == degree \div SignSpan
    IN  [ sign |-> SignAt(sign_index),
          degree |-> Round2(degree % SignSpan),
          nakshatra |-> CalculateNakshatra(degree) ]

\* the house counted from 0 instead of 1
HouseNumZeroBased(sign_index, asc_sign_index) ==
    (sign_index - asc_sign_index) % 12

\* house number of a sign index relative to the ascendant (whole sign)
HouseNum(sign_index, asc_sign_index) ==
    ((sign_index - asc_sign_index) % 12) + 1

\* one iteration of the planet loop of _calculate_planets
PlanetEntry(name, lon, speed, asc_sign_index) ==
    LET sign_index == lon \div SignSpan
    IN  [ name |-> name,
          sign |-> SignAt(sign_index),
          degree |-> Round2(lon % SignSpan),
          house |-> HouseNum(sign_index, asc_sign_index),
          nakshatra |-> CalculateNakshatra(lon),
          retrograde |-> (speed < 0) ]

\* Ketu taking its retrograde flag from Rahu's measured speed
KetuEntryRahuFlag(rahu_data, asc_sign_index) ==
    LET rahu_total_deg == SignIndex(rahu_data.sign) * SignSpan + rahu_data.degree
        ketu_total_deg == (rahu_total_deg + (FullCircle \div 2)) % FullCircle
        ketu_sign_index == ketu_total_deg \div SignSpan
    IN  [ name |-> "Ketu",
          sign |-> SignAt(ketu_sign_index),
          degree |-> Round2(ketu_total_deg % SignSpan),
          house |-> HouseNum(ketu_sign_index, asc_sign_index),
          nakshatra |-> CalculateNakshatra(ketu_total_deg),
          retrograde |-> rahu_data.retrograde ]

\* Ketu, derived from the stored (rounded) Rahu entry
KetuEntry(rahu_data, asc_sign_index) ==
    LET rahu_total_deg == SignIndex(rahu_data.sign) * SignSpan + rahu_data.degree
        ketu_total_deg == (rahu_total_deg + (FullCircle \div 2)) % FullCircle
        ketu_sign_index == ketu_total_deg \div SignSpan
    IN  [ name |-> "Ketu",
          sign |-> SignAt(ketu_sign_index),
          degree |-> Round2(ketu_total_deg % SignSpan),
          house |-> HouseNum(ketu_sign_index, asc_sign_index),
          nakshatra |-> CalculateNakshatra(ketu_total_deg),
          retrograde |-> TRUE ]

(***************************************************************************)
(* KundaliCalculator._calculate_planets                                    *)
(***************************************************************************)
CalculatePlanets(eph, ascendant_sign) ==
    LET asc_sign_index == SignIndex(ascendant_sign)
        planets == [ b \in Bodies |->
                       PlanetEntry(b, eph[b].lon, eph[b].speed, asc_sign_index) ]
    IN  [ n \in PlanetNames |->
            IF n = "Ketu" THEN KetuEntry(planets["Rahu"], asc_sign_index)
                          ELSE planets[n] ]

(***************************************************************************)
(* KundaliCalculator._calculate_houses                                     *)
(***************************************************************************)
CalculateHouses(ascendant_sign) ==
    LET start_index == SignIndex(ascendant_sign)
    IN  [ h \in 1..12 |-> signs[((start_index + (h - 1)) % 12) + 1] ]

(***************************************************************************)
(* KundaliCalculator.calculate followed by KundaliEngine.generate          *)
(***************************************************************************)
GenerateChart(tropical_asc, ayanamsa, eph) ==
    LET ascendant == CalculateAscendant(tropical_asc, ayanamsa)
    IN  [ ascendant |-> ascendant,
          planets |-> CalculatePlanets(eph, ascendant.sign),
          houses |-> CalculateHouses(ascendant.sign),
          ayanamsa |-> "Lahiri" ]

(***************************************************************************)
(* DoshaCalculator (derived facts)                                         *)
(***************************************************************************)
MANGAL_DOSHA_HOUSES == {1, 4, 7, 8, 12}

\* DoshaCalculator._calculate_mangal_dosha
DoshaMangal(kundali) ==
    IF "Mars" \notin DOMAIN kundali.planets
    THEN [ name |-> "Mangal Dosha", present |-> FALSE, severity |-> None,
           description |-> "Mars position unknown" ]
    ELSE IF kundali.planets["Mars"].house \in MANGAL_DOSHA_HOUSES
    THEN [ name |-> "Mangal Dosha", present |-> TRUE, severity |-> "medium",
           description |-> "Manglik position" ]
    ELSE [ name |-> "Mangal Dosha", present |-> FALSE, severity |-> None,
           description |-> "Mars is not in a Manglik position." ]

\* is_between of DoshaCalculator._calculate_kaal_sarp_dosha
IsBetween(house, rahu_house, ketu_house) ==
    IF rahu_house < ketu_house
    THEN rahu_house < house /\ house < ketu_house
    ELSE house > rahu_house \/ house < ketu_house

\* DoshaCalculator._calculate_kaal_sarp_dosha
DoshaKaalSarp(kundali) ==
    IF "Rahu" \notin DOMAIN kundali.planets \/ "Ketu" \notin DOMAIN kundali.planets
    THEN [ name |-> "Kaal Sarp Dosha", present |-> FALSE, severity |-> None,
           description |-> "Nodes unknown" ]
    ELSE LET rahu_house == kundali.planets["Rahu"].house
             ketu_house == kundali.planets["Ketu"].house
         IN  IF \E n \in DOMAIN kundali.planets :
                    /\ kundali.planets[n].name \notin {"Rahu", "Ketu"}
                    /\ ~IsBetween(kundali.planets[n].house, rahu_house, ketu_house)
             THEN [ name |-> "Kaal Sarp Dosha", present |-> FALSE,
                    severity |-> None,
                    description |-> "Planets are not hemmed between Rahu and Ketu." ]
             ELSE [ name |-> "Kaal Sarp Dosha", present |-> TRUE,
                    severity |-> "high",
                    description |-> "All planets are positioned between Rahu and Ketu" ]

\* DoshaCalculator.calculate
DoshaCalculate(kundali) == << DoshaMangal(kundali), DoshaKaalSarp(kundali) >>

(***************************************************************************)
(* HouseCalculator (derived facts)                                         *)
(***************************************************************************)
BENEFIC_PLANETS == {"Jupiter", "Venus", "Mercury", "Moon"}
MALEFIC_PLANETS == {"Saturn", "Mars", "Rahu", "Ketu", "Sun"}

\* kundali.planets.values() in dict order, kept where p.house == house
OccupyingPlanets(kundali, house) ==
    LET InHouse(n) == /\ n \in DOMAIN kundali.planets
                      /\ kundali.planets[n].house = house
        names == SelectSeq(PlanetOrder, InHouse)
    IN  [ i \in 1..Len(names) |-> kundali.planets[names[i]] ]

\* the loop over the occupants of one house: running score and reasons
RECURSIVE ScoreOccupants(_, _, _, _)
ScoreOccupants(occupying_planets, house, score, reasons) ==
    IF occupying_planets = << >>
    THEN [ score |-> score, reasons |-> reasons ]
    ELSE LET planet == Head(occupying_planets)
         IN  IF planet.name \in BENEFIC_PLANETS
             THEN ScoreOccupants(Tail(occupying_planets), house, score + 1,
                    Append(reasons, [ planet |-> planet.name, kind |-> "benefic",
                                      house |-> house ]))
             ELSE IF planet.name \in MALEFIC_PLANETS
             THEN ScoreOccupants(Tail(occupying_planets), house, score - 1,
                    Append(reasons, [ planet |-> planet.name, kind |-> "malefic",
                                      house |-> house ]))
             ELSE ScoreOccupants(Tail(occupying_planets), house, score, reasons)

\* the strong threshold taken strictly
StrengthLabelStrict(score) ==
    IF score > 2 THEN "strong"
    ELSE IF score <= -1 THEN "weak"
    ELSE "average"

\* score -> strength label
StrengthLabel(score) ==
    IF score >= 2 THEN "strong"
    ELSE IF score <= -1 THEN "weak"
    ELSE "average"

\* HouseCalculator.calculate
HouseCalculate(kundali) ==
    [ house \in 1..12 |->
        LET r == ScoreOccupants(OccupyingPlanets(kundali, house), house, 0, << >>)
        IN  [ house |-> house,
              strength |-> StrengthLabel(r.score),
              reasons |-> r.reasons ] ]

(***************************************************************************)
(* KundaliCalculator.calculate_mangal_dosha                                *)
(***************************************************************************)
CalculateMangalDosha(planets) ==
    IF "Mars" \notin DOMAIN planets
    THEN [ present |-> FALSE, description |-> "Mars position unknown" ]
    ELSE LET house == planets["Mars"].house
             is_dosha == house \in {1, 2, 4, 7, 8, 12}
         IN  [ present |-> is_dosha,
               description |-> IF is_dosha THEN "This indicates Mangal Dosha."
                                           ELSE "No Mangal Dosha detected." ]

(***************************************************************************)
(* KundaliCalculator.calculate_kalsarpa_dosha                              *)
(***************************************************************************)
\* get_abs_degree; the planets are PlanetPosition models, so the fallback
\* p.get("degree") taken when the degree is 0.0 (falsy) raises AttributeError
GetAbsDegreeRaises(p) == p.degree = 0

GetAbsDegree(p) ==
    IF p.sign \notin Signs THEN 0
    ELSE SignIndex(p.sign) * SignSpan + p.degree

InArc(deg, start, end) ==
    IF start < end
    THEN start <= deg /\ deg <= end
    ELSE deg >= start \/ deg <= end

CalculateKalsarpaDosha(planets) ==
    IF "Rahu" \notin DOMAIN planets \/ "Ketu" \notin DOMAIN planets
    THEN [ present |-> FALSE, type |-> None, description |-> "Nodes unknown" ]
    ELSE IF \E n \in DOMAIN planets : GetAbsDegreeRaises(planets[n])
    THEN [ present |-> None, type |-> None, description |-> "AttributeError" ]
    ELSE LET rahu_deg == GetAbsDegree(planets["Rahu"]) % FullCircle
             ketu_deg == GetAbsDegree(planets["Ketu"]) % FullCircle
             others == { GetAbsDegree(planets[n]) % FullCircle :
                           n \in (DOMAIN planets) \ {"Rahu", "Ketu"} }
             all_in_rahu_ketu == \A d \in others : InArc(d, rahu_deg, ketu_deg)
             all_in_ketu_rahu == \A d \in others : InArc(d, ketu_deg, rahu_deg)
         IN  IF others = {}
             THEN [ present |-> FALSE, type |-> None,
                    description |-> "No other planets found" ]
             ELSE IF all_in_rahu_ketu
             THEN [ present |-> TRUE, type |-> "Anant (Rahu to Ketu)",
                    description |-> "All planets are hemmed between Rahu and Ketu." ]
             ELSE IF all_in_ketu_rahu
             THEN [ present |-> TRUE, type |-> "Kulat (Ketu to Rahu)",
                    description |-> "All planets are hemmed between Ketu and Rahu." ]
             ELSE [ present |-> FALSE, type |-> None,
                    description |-> "Planets are not hemmed between the nodes." ]

(***************************************************************************)
(* KundaliCalculator.calculate_vimshottari_dasha                           *)
(***************************************************************************)
dasha_lords ==
    << [ lord |-> "Ketu", years |-> 7 ], [ lord |-> "Venus", years |-> 20 ],
       [ lord |-> "Sun", years |-> 6 ], [ lord |-> "Moon", years |-> 10 ],
       [ lord |-> "Mars", years |-> 7 ], [ lord |-> "Rahu", years |-> 18 ],
       [ lord |-> "Jupiter", years |-> 16 ], [ lord |-> "Saturn", years |-> 19 ],
       [ lord |-> "Mercury", years |-> 17 ] >>

\* round(num / den, 0) as Python rounds: to nearest, ties to even
RoundDiv(num, den) ==
    LET q == num \div den
        r == num % den
    IN  IF 2 * r < den THEN q
        ELSE IF 2 * r > den THEN q + 1
        ELSE IF q % 2 = 0 THEN q ELSE q + 1

\* KundaliCalculator._calculate_antardashas; duration_months is kept in
\* hundredths of a month (it is rounded to 2 decimals)
CalculateAntardashas(mahadasha_lord, mahadasha_years) ==
    LET start_idx == (CHOOSE i \in 1..9 : dasha_lords[i].lord = mahadasha_lord) - 1
    IN  [ i \in 1..9 |->
            LET idx == (start_idx + (i - 1)) % 9
                sub == dasha_lords[idx + 1]
            IN  [ lord |-> sub.lord,
                  duration_months |->
                      RoundDiv(mahadasha_years * sub.years * 12 * 100, 120) ] ]

\* nakshatra_idx of the Moon longitude handed to the Dasha calculation
DashaNakshatraIdx(moon_degree) == (moon_degree % FullCircle) \div NAKSHATRA_SPAN

\* start_lord_idx
StartLordIdx(moon_degree) == DashaNakshatraIdx(moon_degree) % 9

\* the balance taken from the traversed part instead of the remaining part
BalanceYearsNumTraversed(moon_degree) ==
    LET moon_lon == moon_degree % FullCircle
        traversed == moon_lon - (DashaNakshatraIdx(moon_degree) * NAKSHATRA_SPAN)
    IN  dasha_lords[StartLordIdx(moon_degree) + 1].years * traversed

\* balance_years as the exact fraction BalanceYearsNum / NAKSHATRA_SPAN
BalanceYearsNum(moon_degree) ==
    LET moon_lon == moon_degree % FullCircle
        traversed == moon_lon - (DashaNakshatraIdx(moon_degree) * NAKSHATRA_SPAN)
    IN  dasha_lords[StartLordIdx(moon_degree) + 1].years * (NAKSHATRA_SPAN - traversed)

\* datetime.date: a proleptic Gregorian calendar day
Date(year, month, day) == [ year |-> year, month |-> month, day |-> day ]

IsLeap(year) == year % 4 = 0 /\ (year % 100 # 0 \/ year % 400 = 0)

DaysBeforeMonth(year, month) ==
    << 0, 31, 59, 90, 120, 151, 181, 212, 243, 273, 304, 334 >>[month]
      + (IF month > 2 /\ IsLeap(year) THEN 1 ELSE 0)

DaysInMonth(year, month) ==
    IF month = 2 /\ IsLeap(year) THEN 29
    ELSE << 31, 28, 31, 30, 31, 30, 31, 31, 30, 31, 30, 31 >>[month]

DaysBeforeYear(year) ==
    LET y == year - 1
    IN  y * 365 + (y \div 4) - (y \div 100) + (y \div 400)

\* date.toordinal: 1 for 1 January of year 1
ToOrdinal(d) == DaysBeforeYear(d.year) + DaysBeforeMonth(d.year, d.month) + d.day

\* date.fromordinal
FromOrdinal(n) ==
    LET year == CHOOSE y \in ((n \div 366) + 1)..((n \div 365) + 1) :
                    DaysBeforeYear(y) < n /\ n <= DaysBeforeYear(y + 1)
        n_in_year == n - DaysBeforeYear(year)
        month == CHOOSE m \in 1..12 :
                    /\ DaysBeforeMonth(year, m) < n_in_year
                    /\ n_in_year <= DaysBeforeMonth(year, m) + DaysInMonth(year, m)
    IN  Date(year, month, n_in_year - DaysBeforeMonth(year, month))

\* d + timedelta(days=days) for a date d: only the whole days count
AddDays(d, days) == FromOrdinal(ToOrdinal(d) + days)

\* the 29 February of a year that is not a leap year moved to 1 March
AddYearsRollingOver(d, years) ==
    IF d.month = 2 /\ d.day = 29 /\ ~IsLeap(d.year + years)
    THEN Date(d.year + years, 3, 1)
    ELSE [ d EXCEPT !.year = @ + years ]

\* add_years: d.replace(year=...) raises ValueError only for a 29 February
\* in a year that is not a leap year, and then the day becomes 28
add_years(d, years) ==
    IF d.month = 2 /\ d.day = 29 /\ ~IsLeap(d.year + years)
    THEN [ d EXCEPT !.year = @ + years, !.day = 28 ]
    ELSE [ d EXCEPT !.year = @ + years ]

\* the whole days of days_remaining = balance_years * 365.25
BalanceDays(moon_degree) ==
    (BalanceYearsNum(moon_degree) * 1461) \div (NAKSHATRA_SPAN * 4)

\* days_remaining is a product of doubles: when it is a whole number of days
\* the double may lie just below it, and timedelta then holds a day less
DaysLost(moon_degree) ==
    IF (BalanceYearsNum(moon_degree) * 1461) % (NAKSHATRA_SPAN * 4) = 0
    THEN {0, 1}
    ELSE {0}

\* end_date of the first i full Mahadashas after the balance one
RECURSIVE EndDate(_, _, _, _)
EndDate(moon_degree, birth_date, lost, i) ==
    IF i = 0
    THEN AddDays(birth_date, BalanceDays(moon_degree) - lost)
    ELSE add_years(EndDate(moon_degree, birth_date, lost, i - 1),
                   dasha_lords[((StartLordIdx(moon_degree) + i) % 9) + 1].years)

\* the emitted list: the balance Mahadasha, then range(1, 10) full ones;
\* duration_years is kept in hundredths of a year; lost is the day the
\* double product falls short by
CalculateVimshottariDasha(moon_degree, birth_date, lost) ==
    LET start_lord_idx == StartLordIdx(moon_degree)
        start_lord == dasha_lords[start_lord_idx + 1]
        first == [ lord |-> start_lord.lord,
                   start_date |-> birth_date,
                   end_date |-> EndDate(moon_degree, birth_date, lost, 0),
                   duration_years |->
                       RoundDiv(BalanceYearsNum(moon_degree) * 100, NAKSHATRA_SPAN),
                   antardashas |->
                       CalculateAntardashas(start_lord.lord, start_lord.years) ]
    IN  << first >> \o
        [ i \in 1..9 |->
            LET d == dasha_lords[((start_lord_idx + i) % 9) + 1]
            IN  [ lord |-> d.lord,
                  start_date |-> EndDate(moon_degree, birth_date, lost, i - 1),
                  end_date |-> EndDate(moon_degree, birth_date, lost, i),
                  duration_years |-> d.years * 100,
                  antardashas |-> CalculateAntardashas(d.lord, d.years) ] ]

(***************************************************************************)
(* NakshatraCalculator.calculate                                           *)
(***************************************************************************)
\* x // span and the matching x % span for a span that is a double lying
\* above the exact 360/27 (or its quarter): an exact multiple of the span is
\* short of the multiple of the double and lands in the cell below
FloorDiv(x, span) ==
    IF x > 0 /\ x % span = 0 THEN (x \div span) - 1 ELSE x \div span

FloorMod(x, span) == x - (FloorDiv(x, span) * span)

\* the sign counted from 1 when forming the absolute degree
NakshatraCalculateOneBased(sign, degree_in_sign) ==
    IF sign \notin Signs
    THEN [ raised |-> "ValueError", name |-> None, pada |-> 0 ]
    ELSE LET sign_index == SignIndex(sign) + 1
             absolute_degree == (sign_index * SignSpan) + degree_in_sign
             nakshatra_index == FloorDiv(absolute_degree, NAKSHATRA_SPAN)
             degree_within_nakshatra == FloorMod(absolute_degree, NAKSHATRA_SPAN)
             pada == FloorDiv(degree_within_nakshatra, NAKSHATRA_SPAN \div 4) + 1
         IN  IF nakshatra_index + 1 \in 1..Len(NAKSHATRAS)
             THEN [ raised |-> None, name |-> NAKSHATRAS[nakshatra_index + 1],
                    pada |-> pada ]
             ELSE [ raised |-> "IndexError", name |-> None, pada |-> 0 ]

NakshatraCalculate(sign, degree_in_sign) ==
    IF sign \notin Signs
    THEN [ raised |-> "ValueError", name |-> None, pada |-> 0 ]
    ELSE LET sign_index == SignIndex(sign)
             absolute_degree == (sign_index * SignSpan) + degree_in_sign
             nakshatra_index == FloorDiv(absolute_degree, NAKSHATRA_SPAN)
             degree_within_nakshatra == FloorMod(absolute_degree, NAKSHATRA_SPAN)
             pada == FloorDiv(degree_within_nakshatra, NAKSHATRA_SPAN \div 4) + 1
         IN  IF nakshatra_index + 1 \in 1..Len(NAKSHATRAS)
             THEN [ raised |-> None, name |-> NAKSHATRAS[nakshatra_index + 1],
                    pada |-> pada ]
             ELSE [ raised |-> "IndexError", name |-> None, pada |-> 0 ]

(***************************************************************************)
(* TransitEngine.calculate                                                 *)
(***************************************************************************)
TransitPlanet(name, lon, speed) ==
    [ name |-> name,
      sign |-> SignAt(lon \div SignSpan),
      degree |-> Round2(lon % SignSpan),
      retrograde |-> (speed < 0) ]

TransitKetu(rahu) ==
    LET rahu_total == SignIndex(rahu.sign) * SignSpan + rahu.degree
        ketu_total == (rahu_total + (FullCircle \div 2)) % FullCircle
    IN  [ name |-> "Ketu",
          sign |-> SignAt(ketu_total \div SignSpan),
          degree |-> Round2(ketu_total % SignSpan),
          retrograde |-> TRUE ]

TransitCalculate(eph) ==
    LET planets == [ b \in Bodies |-> TransitPlanet(b, eph[b].lon, eph[b].speed) ]
    IN  [ planets |-> [ n \in PlanetNames |->
                          IF n = "Ketu" THEN TransitKetu(planets["Rahu"])
                                        ELSE planets[n] ],
          calculation_version |-> "v1" ]

(***************************************************************************)
(* GocharCalculator                                                        *)
(***************************************************************************)
\* GocharCalculator._house_from_reference; 0 stands for the ValueError
HouseFromReference(reference_sign, transit_sign) ==
    IF reference_sign \notin Signs \/ transit_sign \notin Signs
    THEN 0
    ELSE ((SignIndex(transit_sign) - SignIndex(reference_sign)) % 12) + 1

\* GocharCalculator.calculate
GocharCalculate(kundali, tr) ==
    LET lagna_sign == kundali.ascendant.sign
        moon_sign == IF "Moon" \in DOMAIN kundali.planets
                     THEN kundali.planets["Moon"].sign ELSE None
    IN  [ planets |->
            [ n \in DOMAIN tr.planets |->
                [ planet |-> n,
                  from_lagna_house |->
                      HouseFromReference(lagna_sign, tr.planets[n].sign),
                  from_moon_house |->
                      IF moon_sign # None
                      THEN HouseFromReference(moon_sign, tr.planets[n].sign)
                      ELSE 0 ] ],
          calculation_version |-> "v1" ]

(***************************************************************************)
(* ReportService.build_report_context / QueryRouter.answer: the derived    *)
(* data both compute from the stored chart                                 *)
(***************************************************************************)
DerivedData(kundali_chart, birth_date, lost) ==
    LET dashas == CalculateVimshottariDasha(kundali_chart.planets["Moon"].degree,
                                            birth_date, lost)
        mangal == CalculateMangalDosha(kundali_chart.planets)
        kalsarpa == CalculateKalsarpaDosha(kundali_chart.planets)
    IN  IF kalsarpa.description = "AttributeError"
        THEN [ raised |-> "AttributeError", dashas |-> None,
               dosha_analysis |-> None ]
        ELSE [ raised |-> None, dashas |-> dashas,
               dosha_analysis |-> [ mangal |-> mangal, kalsarpa |-> kalsarpa ] ]

(***************************************************************************)
(* KundaliCalculator.calculate_avakahada_chakra                            *)
(***************************************************************************)
varna_map ==
    [ s \in Signs |->
        IF s \in {"Cancer", "Scorpio", "Pisces"} THEN "Brahmin"
        ELSE IF s \in {"Aries", "Leo", "Sagittarius"} THEN "Kshatriya"
        ELSE IF s \in {"Taurus", "Virgo", "Capricorn"} THEN "Vaishya"
        ELSE "Shudra" ]

vashya_map ==
    [ s \in Signs |->
        IF s \in {"Aries", "Taurus"} THEN "Chatushpada"
        ELSE IF s \in {"Cancer", "Capricorn", "Pisces"} THEN "Jalchar"
        ELSE IF s = "Leo" THEN "Vanchar"
        ELSE IF s = "Scorpio" THEN "Keeta"
        ELSE "Manava" ]

yoni_list ==
    << "Horse", "Elephant", "Sheep", "Serpent", "Serpent", "Dog",
       "Cat", "Sheep", "Cat", "Rat", "Rat",
       "Cow", "Buffalo", "Tiger", "Buffalo", "Tiger",
       "Deer", "Deer", "Dog", "Monkey", "Mongoose",
       "Monkey", "Lion", "Horse", "Lion",
       "Cow", "Elephant" >>

gana_list ==
    << "Deva", "Manushya", "Rakshasa", "Manushya", "Deva", "Manushya",
       "Deva", "Deva", "Rakshasa", "Rakshasa", "Manushya",
       "Manushya", "Deva", "Rakshasa", "Deva", "Rakshasa",
       "Deva", "Rakshasa", "Rakshasa", "Manushya", "Manushya",
       "Deva", "Rakshasa", "Rakshasa", "Manushya",
       "Manushya", "Deva" >>

\* nadi_map, keyed by the 0-based nakshatra index
nadi_map ==
    [ i \in 0..26 |->
        IF i \in {0, 5, 6, 11, 12, 17, 18, 23, 24} THEN "Adi"
        ELSE IF i \in {1, 4, 7, 10, 13, 16, 19, 22, 25} THEN "Madhya"
        ELSE "Antya" ]

\* nakshatra_idx = int(abs_degree / nakshatra_span)
AvakahadaNakshatraIdx(moon_sign, moon_degree) ==
    ((SignIndex(moon_sign) * SignSpan) + moon_degree) \div NAKSHATRA_SPAN

\* the empty dict returned for an unknown sign is the empty sequence
CalculateAvakahadaChakra(moon_sign, moon_degree) ==
    IF moon_sign \notin Signs
    THEN << >>
    ELSE LET nakshatra_idx == AvakahadaNakshatraIdx(moon_sign, moon_degree)
             known == nakshatra_idx \in 0..26
         IN  [ Varna |-> varna_map[moon_sign],
               Vashya |-> vashya_map[moon_sign],
               Yoni |-> IF known THEN yoni_list[nakshatra_idx + 1] ELSE "Unknown",
               Gana |-> IF known THEN gana_list[nakshatra_idx + 1] ELSE "Unknown",
               Nadi |-> IF known THEN nadi_map[nakshatra_idx] ELSE "Unknown",
               Nakshatra |-> IF known THEN nakshatras[nakshatra_idx + 1]
                             ELSE "Unknown",
               Sign |-> moon_sign ]

(***************************************************************************)
(* MatchingService.  Scores are kept in half points: 1.5 is 3, 8 is 16.    *)
(***************************************************************************)
VARNA_HIERARCHY == << "Shudra", "Vaishya", "Kshatriya", "Brahmin" >>

\* VASHYA_COMPAT, in whole points
VASHYA_COMPAT ==
    (<< "Manava", "Manava" >> :> 2) @@ (<< "Manava", "Chatushpada" >> :> 1)
    @@ (<< "Chatushpada", "Chatushpada" >> :> 2)
    @@ (<< "Vanchar", "Vanchar" >> :> 2) @@ (<< "Jalchar", "Jalchar" >> :> 2)
    @@ (<< "Keeta", "Keeta" >> :> 2)

YONI_ENEMIES ==
    { << "Horse", "Buffalo" >>, << "Elephant", "Lion" >>,
      << "Sheep", "Monkey" >>, << "Serpent", "Mongoose" >>,
      << "Dog", "Deer" >>, << "Cat", "Rat" >>, << "Tiger", "Cow" >> }

\* GANA_SCORES, in whole points
GANA_SCORES ==
    (<< "Deva", "Deva" >> :> 6) @@ (<< "Manushya", "Manushya" >> :> 6)
    @@ (<< "Rakshasa", "Rakshasa" >> :> 6)
    @@ (<< "Deva", "Manushya" >> :> 5) @@ (<< "Manushya", "Deva" >> :> 5)
    @@ (<< "Manushya", "Rakshasa" >> :> 1) @@ (<< "Rakshasa", "Manushya" >> :> 1)
    @@ (<< "Deva", "Rakshasa" >> :> 0) @@ (<< "Rakshasa", "Deva" >> :> 0)

SIGN_LORDS ==
    [ s \in Signs |->
        IF s \in {"Aries", "Scorpio"} THEN "Mars"
        ELSE IF s \in {"Taurus", "Libra"} THEN "Venus"
        ELSE IF s \in {"Gemini", "Virgo"} THEN "Mercury"
        ELSE IF s = "Cancer" THEN "Moon"
        ELSE IF s = "Leo" THEN "Sun"
        ELSE IF s \in {"Sagittarius", "Pisces"} THEN "Jupiter"
        ELSE "Saturn" ]

\* PLANET_FRIENDSHIP: 1 friend, 0 neutral, -1 enemy
PLANET_FRIENDSHIP ==
    [ Sun |-> [ Moon |-> 1, Mars |-> 1, Jupiter |-> 1, Venus |-> -1,
                Saturn |-> -1, Mercury |-> 0 ],
      Moon |-> [ Sun |-> 1, Mercury |-> 1, Mars |-> 0, Jupiter |-> 0,
                 Venus |-> 0, Saturn |-> 0 ],
      Mars |-> [ Sun |-> 1, Moon |-> 1, Jupiter |-> 1, Venus |-> 0,
                 Saturn |-> 0, Mercury |-> -1 ],
      Mercury |-> [ Sun |-> 1, Venus |-> 1, Moon |-> -1, Mars |-> 0,
                    Jupiter |-> 0, Saturn |-> 0 ],
      Jupiter |-> [ Sun |-> 1, Moon |-> 1, Mars |-> 1, Venus |-> -1,
                    Saturn |-> 0, Mercury |-> -1 ],
      Venus |-> [ Mercury |-> 1, Saturn |-> 1, Sun |-> -1, Moon |-> -1,
                  Mars |-> 0, Jupiter |-> 0 ],
      Saturn |-> [ Mercury |-> 1, Venus |-> 1, Sun |-> -1, Moon |-> -1,
                   Mars |-> -1, Jupiter |-> 0 ] ]

BHAKOOT_BAD == << << 2, 12 >>, << 5, 9 >>, << 6, 8 >> >>

\* MatchingService.SIGNS and MatchingService.NAKSHATRAS
SIGNS == signs

MatchingNakshatras ==
    << "Ashwini", "Bharani", "Krittika", "Rohini", "Mrigashira", "Ardra",
       "Punarvasu", "Pushya", "Ashlesha", "Magha", "Purva Phalguni",
       "Uttara Phalguni", "Hasta", "Chitra", "Swati", "Vishakha",
       "Anuradha", "Jyeshtha", "Mula", "Purva Ashadha", "Uttara Ashadha",
       "Shravana", "Dhanishta", "Shatabhisha", "Purva Bhadrapada",
       "Uttara Bhadrapada", "Revati" >>

\* list.index(x), 0-based
IndexIn(list, x) == (CHOOSE i \in 1..Len(list) : list[i] = x) - 1

InList(list, x) == \E i \in 1..Len(list) : list[i] = x

\* the score is the rank difference instead of the 0/1 verdict
CalcVarnaByRank(boy_varna, girl_varna) ==
    LET boy_rank == IF InList(VARNA_HIERARCHY, boy_varna)
                    THEN IndexIn(VARNA_HIERARCHY, boy_varna) ELSE 0
        girl_rank == IF InList(VARNA_HIERARCHY, girl_varna)
                     THEN IndexIn(VARNA_HIERARCHY, girl_varna) ELSE 0
    IN  IF boy_rank >= girl_rank THEN 2 * (1 + boy_rank - girl_rank) ELSE 0

CalcVarna(boy_varna, girl_varna) ==
    LET boy_rank == IF InList(VARNA_HIERARCHY, boy_varna)
                    THEN IndexIn(VARNA_HIERARCHY, boy_varna) ELSE 0
        girl_rank == IF InList(VARNA_HIERARCHY, girl_varna)
                     THEN IndexIn(VARNA_HIERARCHY, girl_varna) ELSE 0
    IN  IF boy_rank >= girl_rank THEN 2 * 1 ELSE 0

CalcVashya(boy_vashya, girl_vashya) ==
    LET key == << boy_vashya, girl_vashya >>
        rev_key == << girl_vashya, boy_vashya >>
    IN  IF key \in DOMAIN VASHYA_COMPAT THEN 2 * VASHYA_COMPAT[key]
        ELSE IF rev_key \in DOMAIN VASHYA_COMPAT THEN 2 * VASHYA_COMPAT[rev_key]
        ELSE IF boy_vashya = girl_vashya THEN 2 * 2
        ELSE 0

\* tara_num of _calc_tara; 0 when a name is not in the list
TaraNum(boy_base, girl_base) ==
    IF ~InList(MatchingNakshatras, boy_base) \/ ~InList(MatchingNakshatras, girl_base)
    THEN 0
    ELSE LET boy_idx == IndexIn(MatchingNakshatras, boy_base)
             girl_idx == IndexIn(MatchingNakshatras, girl_base)
             dist == ((boy_idx - girl_idx) % 27) + 1
         IN  ((dist - 1) % 9) + 1

\* the distance counted from the boy's nakshatra to the girl's
CalcTaraFromBoy(boy_nak, girl_nak) ==
    LET tara_num == TaraNum(girl_nak, boy_nak)
    IN  IF tara_num = 0 THEN 3
        ELSE IF tara_num \in {3, 5, 7} THEN 2 * 3
        ELSE IF tara_num \in {1, 2, 4, 6, 8} THEN 3
        ELSE 0

\* the avakahada names carry no " (pada)" suffix, so the base is the name
CalcTara(boy_nak, girl_nak) ==
    LET tara_num == TaraNum(boy_nak, girl_nak)
    IN  IF tara_num = 0 THEN 3
        ELSE IF tara_num \in {3, 5, 7} THEN 2 * 3
        ELSE IF tara_num \in {1, 2, 4, 6, 8} THEN 3
        ELSE 0

CalcYoni(boy_yoni, girl_yoni) ==
    IF boy_yoni = girl_yoni THEN 2 * 4
    ELSE IF << boy_yoni, girl_yoni >> \in YONI_ENEMIES
            \/ << girl_yoni, boy_yoni >> \in YONI_ENEMIES
         THEN 0
         ELSE 2 * 2

\* PLANET_FRIENDSHIP.get(a, {}).get(b, 0)
Friendship(a, b) ==
    IF a \in DOMAIN PLANET_FRIENDSHIP /\ b \in DOMAIN PLANET_FRIENDSHIP[a]
    THEN PLANET_FRIENDSHIP[a][b] ELSE 0

\* a Graha Maitri that asks only how the boy's lord regards the girl's
CalcGrahaMaitriBoyView(boy_sign, girl_sign) ==
    IF boy_sign \notin Signs \/ girl_sign \notin Signs
    THEN 5
    ELSE LET boy_lord == SIGN_LORDS[boy_sign]
             girl_lord == SIGN_LORDS[girl_sign]
             sum == 2 * Friendship(boy_lord, girl_lord)
         IN  IF boy_lord = girl_lord THEN 2 * 5
             ELSE IF sum >= 1 THEN 2 * 5
             ELSE IF sum >= 0 THEN 2 * 3
             ELSE 0

CalcGrahaMaitri(boy_sign, girl_sign) ==
    IF boy_sign \notin Signs \/ girl_sign \notin Signs
    THEN 5
    ELSE LET boy_lord == SIGN_LORDS[boy_sign]
             girl_lord == SIGN_LORDS[girl_sign]
             sum == Friendship(boy_lord, girl_lord) + Friendship(girl_lord, boy_lord)
         IN  IF boy_lord = girl_lord THEN 2 * 5
             ELSE IF sum >= 1 THEN 2 * 5
             ELSE IF sum >= 0 THEN 2 * 3
             ELSE 0

CalcGana(boy_gana, girl_gana) ==
    LET key == << boy_gana, girl_gana >>
    IN  IF key \in DOMAIN GANA_SCORES THEN 2 * GANA_SCORES[key] ELSE 2 * 3

\* dist1, dist2 of _calc_bhakoot
BhakootDistances(boy_sign, girl_sign) ==
    LET boy_idx == IndexIn(SIGNS, boy_sign)
        girl_idx == IndexIn(SIGNS, girl_sign)
    IN  << ((boy_idx - girl_idx) % 12) + 1, ((girl_idx - boy_idx) % 12) + 1 >>

\* only the pair in the order (boy -> girl, girl -> boy) is looked up
CalcBhakootOrdered(boy_sign, girl_sign) ==
    IF ~InList(SIGNS, boy_sign) \/ ~InList(SIGNS, girl_sign)
    THEN 7
    ELSE LET d == BhakootDistances(boy_sign, girl_sign)
         IN  IF \E i \in 1..Len(BHAKOOT_BAD) : d = BHAKOOT_BAD[i]
             THEN 0 ELSE 2 * 7

CalcBhakoot(boy_sign, girl_sign) ==
    IF ~InList(SIGNS, boy_sign) \/ ~InList(SIGNS, girl_sign)
    THEN 7
    ELSE LET d == BhakootDistances(boy_sign, girl_sign)
         IN  IF \E i \in 1..Len(BHAKOOT_BAD) :
                    d = BHAKOOT_BAD[i] \/ << d[2], d[1] >> = BHAKOOT_BAD[i]
             THEN 0 ELSE 2 * 7

\* the same Nadi scoring the points
CalcNadiSameScores(boy_nadi, girl_nadi) ==
    IF boy_nadi = girl_nadi THEN 2 * 8 ELSE 0

CalcNadi(boy_nadi, girl_nadi) ==
    IF boy_nadi = girl_nadi THEN 0 ELSE 2 * 8

RECURSIVE SumScores(_)
SumScores(factors) ==
    IF factors = << >> THEN 0
    ELSE Head(factors).score + SumScores(Tail(factors))

Verdict(total) ==
    IF total >= 2 * 25 THEN "Excellent Match"
    ELSE IF total >= 2 * 18 THEN "Good Match"
    ELSE IF total >= 2 * 12 THEN "Average Match"
    ELSE "Below Average"

\* MatchingService.calculate_ashta_koot; an unknown sign leaves an empty
\* avakahada dict and boy_ava["Varna"] raises KeyError
CalculateAshtaKoot(boy_moon_sign, boy_moon_degree, girl_moon_sign, girl_moon_degree) ==
    IF boy_moon_sign \notin Signs \/ girl_moon_sign \notin Signs
    THEN [ raised |-> "KeyError" ]
    ELSE LET boy_ava == CalculateAvakahadaChakra(boy_moon_sign, boy_moon_degree)
             girl_ava == CalculateAvakahadaChakra(girl_moon_sign, girl_moon_degree)
             factors ==
               << [ name |-> "Varna", max |-> 1,
                    score |-> CalcVarna(boy_ava.Varna, girl_ava.Varna),
                    boy_value |-> boy_ava.Varna, girl_value |-> girl_ava.Varna ],
                  [ name |-> "Vashya", max |-> 2,
                    score |-> CalcVashya(boy_ava.Vashya, girl_ava.Vashya),
                    boy_value |-> boy_ava.Vashya, girl_value |-> girl_ava.Vashya ],
                  [ name |-> "Tara", max |-> 3,
                    score |-> CalcTara(boy_ava.Nakshatra, girl_ava.Nakshatra),
                    boy_value |-> boy_ava.Nakshatra,
                    girl_value |-> girl_ava.Nakshatra ],
                  [ name |-> "Yoni", max |-> 4,
                    score |-> CalcYoni(boy_ava.Yoni, girl_ava.Yoni),
                    boy_value |-> boy_ava.Yoni, girl_value |-> girl_ava.Yoni ],
                  [ name |-> "Graha Maitri", max |-> 5,
                    score |-> CalcGrahaMaitri(boy_moon_sign, girl_moon_sign),
                    boy_value |-> SIGN_LORDS[boy_moon_sign],
                    girl_value |-> SIGN_LORDS[girl_moon_sign] ],
                  [ name |-> "Gana", max |-> 6,
                    score |-> CalcGana(boy_ava.Gana, girl_ava.Gana),
                    boy_value |-> boy_ava.Gana, girl_value |-> girl_ava.Gana ],
                  [ name |-> "Bhakoot", max |-> 7,
                    score |-> CalcBhakoot(boy_moon_sign, girl_moon_sign),
                    boy_value |-> boy_moon_sign, girl_value |-> girl_moon_sign ],
                  [ name |-> "Nadi", max |-> 8,
                    score |-> CalcNadi(boy_ava.Nadi, girl_ava.Nadi),
                    boy_value |-> boy_ava.Nadi, girl_value |-> girl_ava.Nadi ] >>
             total == SumScores(factors)
         IN  [ raised |-> None,
               total_score |-> total,
               max_score |-> 36,
               verdict |-> Verdict(total),
               factors |-> factors,
               boy_details |-> boy_ava,
               girl_details |-> girl_ava ]

(***************************************************************************)
(* RuleEngine (domain/rules/rule_engine.py).  A JSON value that may be     *)
(* absent from a mapping is kept as a set: {} for an absent key, {v} for   *)
(* a key holding v.  The empty mapping {} is the function of empty domain. *)
(***************************************************************************)
EmptyDict == << >>

\* the value held by a present key
ValueOf(s) == CHOOSE v \in s : TRUE

\* what a callee hands back: a verdict with its trigger, or the exception
\* that left it
Returned(ok, trigger) == [ raised |-> None, ok |-> ok, trigger |-> trigger ]
Raised(exception) == [ raised |-> exception, ok |-> FALSE, trigger |-> EmptyDict ]

\* the trigger snapshot of a matched planet clause
PlanetTrigger(planet_name, planet) ==
    [ entity_type |-> "planet",
      entity_key |-> planet_name,
      snapshot |-> [ sign |-> planet.sign,
                     house |-> planet.house,
                     degree |-> planet.degree,
                     retrograde |-> planet.retrograde ] ]

\* RuleEngine._evaluate_planet_clause
EvaluatePlanetClause(kundali, clause) ==
    LET planet_name == clause.name
        required_house == clause.house
        required_sign == clause.sign
    IN  IF planet_name \cap DOMAIN kundali.planets = {}
        THEN Returned(FALSE, EmptyDict)
        ELSE LET planet == kundali.planets[ValueOf(planet_name)]
             IN  IF required_house # {} /\ {planet.house} # required_house
                 THEN Returned(FALSE, EmptyDict)
                 ELSE IF required_sign # {} /\ {planet.sign} # required_sign
                 THEN Returned(FALSE, EmptyDict)
                 ELSE Returned(TRUE, PlanetTrigger(ValueOf(planet_name), planet))

\* RuleEngine._evaluate_clause: clause.get exists on mappings only
EvaluateClause(kundali, clause) ==
    IF clause.type # "dict"
    THEN Raised("AttributeError")
    ELSE IF clause.entity = {"planet"}
    THEN EvaluatePlanetClause(kundali, clause)
    ELSE Returned(FALSE, EmptyDict)

\* the for loop of RuleEngine._evaluate_all with its running trigger list
RECURSIVE EvaluateAllFrom(_, _, _)
EvaluateAllFrom(kundali, clauses, triggers) ==
    IF clauses = << >>
    THEN [ raised |-> None, matched |-> TRUE, triggers |-> triggers ]
    ELSE LET r == EvaluateClause(kundali, Head(clauses))
         IN  IF r.raised # None
             THEN [ raised |-> r.raised, matched |-> FALSE, triggers |-> << >> ]
             ELSE IF ~r.ok
             THEN [ raised |-> None, matched |-> FALSE, triggers |-> << >> ]
             ELSE EvaluateAllFrom(kundali, Tail(clauses),
                                  Append(triggers, r.trigger))

\* iterating the value held under "all" / "any": a list gives its items, a
\* string its characters (kept as string items), null and numbers nothing
Iterable(value) == value.vk \in {"list", "str"}

\* an All that lists the trigger of the latest clause first
EvaluateAllNewestFirst(kundali, value) ==
    IF ~Iterable(value)
    THEN [ raised |-> "TypeError", matched |-> FALSE, triggers |-> << >> ]
    ELSE LET r == EvaluateAllFrom(kundali, value.items, << >>)
             n == Len(r.triggers)
         IN  [ r EXCEPT !.triggers = [ i \in 1..n |-> r.triggers[n + 1 - i] ] ]

\* RuleEngine._evaluate_all
EvaluateAll(kundali, value) ==
    IF ~Iterable(value)
    THEN [ raised |-> "TypeError", matched |-> FALSE, triggers |-> << >> ]
    ELSE EvaluateAllFrom(kundali, value.items, << >>)

\* RuleEngine._evaluate_any over the items of an iterable
RECURSIVE EvaluateAnyFrom(_, _)
EvaluateAnyFrom(kundali, clauses) ==
    IF clauses = << >>
    THEN [ raised |-> None, matched |-> FALSE, triggers |-> << >> ]
    ELSE LET r == EvaluateClause(kundali, Head(clauses))
         IN  IF r.raised # None
             THEN [ raised |-> r.raised, matched |-> FALSE, triggers |-> << >> ]
             ELSE IF r.ok
             THEN [ raised |-> None, matched |-> TRUE, triggers |-> << r.trigger >> ]
             ELSE EvaluateAnyFrom(kundali, Tail(clauses))

\* an Any that hands back the trigger of every matching clause
EvaluateAnyEveryTrigger(kundali, value) ==
    IF ~Iterable(value)
    THEN [ raised |-> "TypeError", matched |-> FALSE, triggers |-> << >> ]
    ELSE LET r == EvaluateAnyFrom(kundali, value.items)
             Matches(clause) == LET e == EvaluateClause(kundali, clause)
                                IN  e.raised = None /\ e.ok
             matching == SelectSeq(value.items, Matches)
         IN  IF r.matched
             THEN [ r EXCEPT !.triggers =
                      [ i \in 1..Len(matching) |->
                          EvaluateClause(kundali, matching[i]).trigger ] ]
             ELSE r

\* RuleEngine._evaluate_any
EvaluateAny(kundali, value) ==
    IF ~Iterable(value)
    THEN [ raised |-> "TypeError", matched |-> FALSE, triggers |-> << >> ]
    ELSE EvaluateAnyFrom(kundali, value.items)

\* RuleEngine._evaluate_rule: `"all" in conditions` needs a container, and
\* conditions["all"] a mapping
EvaluateRule(kundali, conditions) ==
    IF conditions.kind \in {"null", "int"}
    THEN [ raised |-> "TypeError", matched |-> FALSE, triggers |-> << >> ]
    ELSE IF conditions.all # {}
    THEN IF conditions.kind # "dict"
         THEN [ raised |-> "TypeError", matched |-> FALSE, triggers |-> << >> ]
         ELSE EvaluateAll(kundali, ValueOf(conditions.all))
    ELSE IF conditions.any # {}
    THEN IF conditions.kind # "dict"
         THEN [ raised |-> "TypeError", matched |-> FALSE, triggers |-> << >> ]
         ELSE EvaluateAny(kundali, ValueOf(conditions.any))
    ELSE [ raised |-> None, matched |-> FALSE, triggers |-> << >> ]

\* RuleMatchResult
RuleMatchResult(rule, triggered_entities) ==
    [ rule |-> rule, matched |-> TRUE, triggered_entities |-> triggered_entities ]

\* the for loop of RuleEngine.evaluate with its running result list
RECURSIVE EvaluateFrom(_, _, _)
EvaluateFrom(kundali, rules, results) ==
    IF rules = << >>
    THEN [ raised |-> None, results |-> results ]
    ELSE LET rule == Head(rules)
             r == EvaluateRule(kundali, rule.conditions)
         IN  IF r.raised # None
             THEN [ raised |-> r.raised, results |-> << >> ]
             ELSE IF r.matched
             THEN EvaluateFrom(kundali, Tail(rules),
                               Append(results, RuleMatchResult(rule, r.triggers)))
             ELSE EvaluateFrom(kundali, Tail(rules), results)

\* RuleEngine.evaluate
Evaluate(kundali, rules) == EvaluateFrom(kundali, rules, << >>)

(***************************************************************************)
(* RuleMatcher (domain/rules/rule_matcher.py)                              *)
(***************************************************************************)
\* RuleMatcher._match_planet
MatchPlanet(kundali, condition) ==
    LET planet_name == condition.name
        required_house == condition.house
        required_sign == condition.sign
    IN  IF planet_name \cap DOMAIN kundali.planets = {}
        THEN Returned(FALSE, EmptyDict)
        ELSE LET planet == kundali.planets[ValueOf(planet_name)]
             IN  IF required_house # {} /\ {planet.house} # required_house
                 THEN Returned(FALSE, EmptyDict)
                 ELSE IF required_sign # {} /\ {planet.sign} # required_sign
                 THEN Returned(FALSE, EmptyDict)
                 ELSE Returned(TRUE, PlanetTrigger(ValueOf(planet_name), planet))

\* RuleMatcher._match_house; derived is {} for None
MatchHouse(derived, condition) ==
    IF derived = {}
    THEN Returned(FALSE, EmptyDict)
    ELSE LET house_num == condition.house
             required_strength == condition.strength
             house_strengths == ValueOf(derived).house_strengths
         IN  IF house_num \cap DOMAIN house_strengths = {}
             THEN Returned(FALSE, EmptyDict)
             ELSE LET house_strength == house_strengths[ValueOf(house_num)]
                  IN  IF /\ required_strength \notin {{}, {""}}
                         /\ {house_strength.strength} # required_strength
                      THEN Returned(FALSE, EmptyDict)
                      ELSE Returned(TRUE,
                             [ entity_type |-> "house",
                               entity_key |-> ToString(ValueOf(house_num)),
                               snapshot |->
                                 [ strength |-> house_strength.strength,
                                   reasons |-> house_strength.reasons ] ])

\* the for loop of RuleMatcher._match_dosha over derived.doshas
RECURSIVE MatchDoshaFrom(_, _, _)
MatchDoshaFrom(doshas_left, dosha_name, required_present) ==
    IF doshas_left = << >>
    THEN Returned(FALSE, EmptyDict)
    ELSE LET dosha == Head(doshas_left)
         IN  IF {dosha.name} = dosha_name /\ dosha.present = required_present
             THEN Returned(TRUE,
                    [ entity_type |-> "dosha",
                      entity_key |-> dosha.name,
                      snapshot |-> [ severity |-> dosha.severity,
                                     description |-> dosha.description ] ])
             ELSE MatchDoshaFrom(Tail(doshas_left), dosha_name, required_present)

\* RuleMatcher._match_dosha; present defaults to True
MatchDosha(derived, condition) ==
    IF derived = {}
    THEN Returned(FALSE, EmptyDict)
    ELSE LET dosha_name == condition.name
             required_present == IF condition.present = {} THEN TRUE
                                 ELSE ValueOf(condition.present)
         IN  MatchDoshaFrom(ValueOf(derived).doshas, dosha_name, required_present)

\* RuleMatcher.match
RuleMatch(kundali, derived, condition) ==
    IF condition.type # "dict"
    THEN Raised("AttributeError")
    ELSE IF condition.entity = {"planet"} THEN MatchPlanet(kundali, condition)
    ELSE IF condition.entity = {"house"} THEN MatchHouse(derived, condition)
    ELSE IF condition.entity = {"dosha"} THEN MatchDosha(derived, condition)
    ELSE Returned(FALSE, EmptyDict)

(***************************************************************************)
(* KundaliCalculator._to_utc_datetime and _julian_day.  A datetime is the  *)
(* count of minutes on the civil clock since an epoch.                     *)
(***************************************************************************)
\* zones the zone database holds, with their UTC offsets in minutes
ZoneOffsets ==
    [ z \in {"UTC", "Asia/Kolkata", "America/New_York"} |->
        IF z = "UTC" THEN 0 ELSE IF z = "Asia/Kolkata" THEN 330 ELSE -300 ]

\* keys ZoneInfo refuses before any lookup: not normalized relative paths
UnnormalizedKeys == {"", "/etc/localtime"}

\* ZoneInfo(timezone)
ZoneInfoLookup(timezone) ==
    IF timezone \in DOMAIN ZoneOffsets
    THEN [ raised |-> None, utcoffset |-> ZoneOffsets[timezone] ]
    ELSE IF timezone \in UnnormalizedKeys
    THEN [ raised |-> "ValueError", utcoffset |-> 0 ]
    ELSE [ raised |-> "ZoneInfoNotFoundError", utcoffset |-> 0 ]

\* a fallback that reads the civil time as Indian standard time
ToUtcDatetimeAssumingKolkata(local_dt, timezone) ==
    LET local_tz == ZoneInfoLookup(timezone)
    IN  IF local_tz.raised \in {"ZoneInfoNotFoundError", "ValueError"}
        THEN local_dt - ZoneOffsets["Asia/Kolkata"]
        ELSE local_dt - local_tz.utcoffset

\* KundaliCalculator._to_utc_datetime
ToUtcDatetime(local_dt, timezone) ==
    LET local_tz == ZoneInfoLookup(timezone)
    IN  IF local_tz.raised \in {"ZoneInfoNotFoundError", "ValueError"}
        THEN local_dt
        ELSE local_dt - local_tz.utcoffset

\* KundaliCalculator._julian_day: the day count, kept in minutes
JulianDay(dt) == dt

(***************************************************************************)
(* Divisional charts (domain/kundali/divisional).  NAVAMSHA_SPAN is the    *)
(* double 30 / 9, just above a third of ten degrees, so a degree that is   *)
(* an exact multiple of it falls in the cell below; DASHAMSHA_SPAN is      *)
(* exactly 3.                                                              *)
(***************************************************************************)
NAVAMSHA_SPAN == 1000
DASHAMSHA_SPAN == 900

\* a D9 that multiplies the sign index by the twelve signs of the zodiac
NavamshaPositionByTwelve(sign, degree_in_sign) ==
    IF sign \notin Signs
    THEN [ raised |-> "ValueError", sign |-> None, degree |-> 0 ]
    ELSE LET sign_index == SignIndex(sign)
             navamsha_index == FloorDiv(degree_in_sign, NAVAMSHA_SPAN)
             d9_sign_index == (sign_index * 12 + navamsha_index) % 12
             degree_in_navamsha ==
                 FloorMod(degree_in_sign, NAVAMSHA_SPAN) * (SignSpan \div NAVAMSHA_SPAN)
         IN  [ raised |-> None, sign |-> SignAt(d9_sign_index),
               degree |-> Round2(degree_in_navamsha) ]

\* D9Calculator._navamsha_position
NavamshaPosition(sign, degree_in_sign) ==
    IF sign \notin Signs
    THEN [ raised |-> "ValueError", sign |-> None, degree |-> 0 ]
    ELSE LET sign_index == SignIndex(sign)
             navamsha_index == FloorDiv(degree_in_sign, NAVAMSHA_SPAN)
             d9_sign_index == (sign_index * 9 + navamsha_index) % 12
             degree_in_navamsha ==
                 FloorMod(degree_in_sign, NAVAMSHA_SPAN) * (SignSpan \div NAVAMSHA_SPAN)
         IN  [ raised |-> None, sign |-> SignAt(d9_sign_index),
               degree |-> Round2(degree_in_navamsha) ]

\* D10Calculator._dashamsha_position
DashamshaPosition(sign, degree_in_sign) ==
    IF sign \notin Signs
    THEN [ raised |-> "ValueError", sign |-> None, degree |-> 0 ]
    ELSE LET sign_index == SignIndex(sign)
             dashamsha_index == degree_in_sign \div DASHAMSHA_SPAN
             is_odd_sign == sign_index % 2 = 0
             d10_sign_index == IF is_odd_sign
                               THEN (sign_index + dashamsha_index) % 12
                               ELSE (sign_index - dashamsha_index) % 12
             degree_in_dashamsha ==
                 (degree_in_sign % DASHAMSHA_SPAN) * (SignSpan \div DASHAMSHA_SPAN)
         IN  [ raised |-> None, sign |-> SignAt(d10_sign_index),
               degree |-> Round2(degree_in_dashamsha) ]

\* D9Calculator.calculate / D10Calculator.calculate with their position
\* helper, followed by BaseDivisionalCalculator._build_chart
DivisionalCalculate(chart_type, kundali) ==
    LET Position(sign, degree) ==
            IF chart_type = "D9" THEN NavamshaPosition(sign, degree)
                                 ELSE DashamshaPosition(sign, degree)
        asc == Position(kundali.ascendant.sign, kundali.ascendant.degree)
    IN  [ chart_type |-> chart_type,
          ascendant |-> [ sign |-> asc.sign, degree |-> asc.degree,
                          nakshatra |-> None ],
          planets |->
            [ name \in DOMAIN kundali.planets |->
                LET planet == kundali.planets[name]
                    p == Position(planet.sign, planet.degree)
                IN  [ name |-> name, sign |-> p.sign, degree |-> p.degree,
                      house |-> 0, nakshatra |-> None,
                      retrograde |-> planet.retrograde ] ],
          calculation_version |-> "v1" ]

\* DivisionalBuilder.build
DivisionalBuild(kundali) ==
    [ charts |-> [ D9 |-> DivisionalCalculate("D9", kundali),
                   D10 |-> DivisionalCalculate("D10", kundali) ],
      calculation_version |-> "v1" ]

(***************************************************************************)
(* KundaliCalculator.calculate_sade_sati                                   *)
(***************************************************************************)
\* status for the sign distance from the natal Moon to Saturn
SadeSatiStatus(diff) ==
    IF diff = 11 THEN "Sade Sati (Rising)"
    ELSE IF diff = 0 THEN "Sade Sati (Peak)"
    ELSE IF diff = 1 THEN "Sade Sati (Setting)"
    ELSE IF diff = 3 THEN "Dhaiya (Small Panoti)"
    ELSE IF diff = 7 THEN "Dhaiya (Small Panoti)"
    ELSE "None"

\* the distance counted from Saturn to the Moon
CalculateSadeSatiFromSaturn(natal_moon_sign, saturn_lon) ==
    LET saturn_sign_index == saturn_lon \div SignSpan
        moon_sign_index == SignIndex(natal_moon_sign)
        diff == (moon_sign_index - saturn_sign_index) % 12
    IN  [ status |-> SadeSatiStatus(diff),
          saturn_sign |-> SignAt(saturn_sign_index),
          moon_sign |-> natal_moon_sign ]

\* calculate_sade_sati, Saturn's sidereal longitude being the ephemeris's
\* answer for the check date
CalculateSadeSati(natal_moon_sign, saturn_lon) ==
    LET saturn_sign_index == saturn_lon \div SignSpan
        moon_sign_index == SignIndex(natal_moon_sign)
        diff == (saturn_sign_index - moon_sign_index) % 12
    IN  [ status |-> SadeSatiStatus(diff),
          saturn_sign |-> SignAt(saturn_sign_index),
          moon_sign |-> natal_moon_sign ]

(***************************************************************************)
(* TransitService.get_current over TransitCache                            *)
(***************************************************************************)
\* CacheTTL.TRANSIT, in seconds
TRANSIT == 300

\* CacheKeys.transit: the key holds the kundali id and nothing else
TransitKey(kundali_core_id) == << "transit", kundali_core_id >>

\* BaseCache.get: the stored value while the key has not expired
CacheGet(cache, key, now) ==
    IF key \in DOMAIN cache /\ now < cache[key].expires
    THEN { cache[key].value }
    ELSE {}

\* BaseCache.set: setex(key, ttl, value)
CacheSet(cache, key, value, ttl, now) ==
    [ k \in DOMAIN cache \cup {key} |->
        IF k = key THEN [ value |-> value, expires |-> now + ttl ] ELSE cache[k] ]

(***************************************************************************)
(* BillingService                                                          *)
(***************************************************************************)
PLAN_QUOTAS ==
    [ free |-> [ kundali |-> 1, ask_llm |-> 5, pdf_report |-> 1, voice |-> 2 ],
      pro |-> [ kundali |-> 10, ask_llm |-> 100, pdf_report |-> 20, voice |-> 20 ],
      enterprise |-> [ kundali |-> 10000, ask_llm |-> 100000,
                       pdf_report |-> 10000, voice |-> 10000 ] ]

\* BillingService._get_quota_limit; sub is the active subscription, if any
GetQuotaLimit(sub, feature) ==
    LET plan == IF sub # {} THEN ValueOf(sub).plan ELSE "free"
    IN  IF plan \in DOMAIN PLAN_QUOTAS /\ feature \in DOMAIN PLAN_QUOTAS[plan]
        THEN PLAN_QUOTAS[plan][feature]
        ELSE 0

\* UsageRepository.count_monthly_usage: the rows of the user's feature
\* created in the current calendar month
CountMonthlyUsage(usage_log, feature, month) ==
    Cardinality({ i \in 1..Len(usage_log) :
                    usage_log[i].feature = feature /\ usage_log[i].month = month })

\* UsageRepository.create
UsageLog(feature, quantity, month) ==
    [ feature |-> feature, quantity |-> quantity, month |-> month ]

(***************************************************************************)
(* Ephemeris samples                                                       *)
(***************************************************************************)
\* degrees-in-sign sampled finely: both edges of the sign and its middle
FineDegrees ==
    (0..MaxOff) \cup {SignSpan \div 2} \cup ((SignSpan - MaxOff)..(SignSpan - 1))

FineLons == { s * SignSpan + d : s \in 0..11, d \in FineDegrees }

\* one longitude in the middle of every sign
CoarseLons == { s * SignSpan + (SignSpan \div 2) : s \in 0..11 }

\* sidereal ascendants sampled: first and last representable point of a sign
AscLons == { s * SignSpan + d : s \in 0..11, d \in {0, SignSpan - 1} }

\* ascendants combined with the finely sampled tables
AscRefLons == { SignSpan + (SignSpan \div 3) }

AyanamsaSamples == { 24 * 300 + 37 }

Direct(lon) == [ lon |-> lon, speed |-> 1 ]
Retro(lon) == [ lon |-> lon, speed |-> -1 ]

\* two whole-sky configurations: one with every body inside the arc
\* Rahu -> Ketu, one with the bodies spread round the zodiac
Backgrounds ==
    << [ Sun |-> Direct(40 * 300), Moon |-> Direct(45 * 300),
         Mars |-> Direct(100 * 300), Mercury |-> Direct(62 * 300),
         Jupiter |-> Direct(65 * 300), Venus |-> Direct(68 * 300),
         Saturn |-> Retro(160 * 300), Rahu |-> Retro(10 * 300) ],
       [ Sun |-> Direct(10 * 300), Moon |-> Direct(100 * 300),
         Mars |-> Retro(200 * 300), Mercury |-> Direct(350 * 300),
         Jupiter |-> Direct(130 * 300), Venus |-> Direct(305 * 300),
         Saturn |-> Direct(250 * 300), Rahu |-> Retro(75 * 300) ] >>

\* background k with body f moved to longitude x with speed v
Table(k, f, x, v) ==
    [ b \in Bodies |-> IF b = f THEN [ lon |-> x, speed |-> v ]
                                 ELSE Backgrounds[k][b] ]

CoarseTables ==
    { Table(k, f, x, 1) : k \in 1..Len(Backgrounds), f \in Bodies, x \in CoarseLons }

FineTables ==
    { Table(k, f, x, v) :
        k \in 1..Len(Backgrounds), f \in Bodies, x \in FineLons, v \in {-1, 1} }

\* birth inputs as the ephemeris answers them: <<sidereal ascendant, table>>
ChartInputs ==
    (AscLons \X CoarseTables) \cup (AscRefLons \X FineTables)

\* Moon degrees in [0, 30) for the matching: 0, 10 and 20 degrees and the
\* last representable points of the sign, which reach every nakshatra that
\* overlaps the sign
MatchDegrees ==
    { 0, 10 * 300, 20 * 300 } \cup ((SignSpan - MaxOff)..(SignSpan - 1))

\* Moon signs handed to the matching: the twelve signs, a name that is no
\* sign, and a sign in lower case
MatchSigns == Signs \cup {"Ophiuchus", "aries"}

\* the birth place of the charts above
DefaultBirth == [ latitude |-> 19, longitude |-> 73 ]

\* birth places at and beyond the ends of the physical ranges
BirthSamples ==
    { [ latitude |-> la, longitude |-> lo ] :
        la \in {0} \cup { -90 - o : o \in 0..MaxGeoOff } \cup { 90 + o : o \in 0..MaxGeoOff },
        lo \in {0} \cup { -180 - o : o \in 0..MaxGeoOff }
                  \cup { 180 + o : o \in 0..MaxGeoOff } }

\* <<birth input, sidereal ascendant, table>>: every sampled sky for the
\* default birth place, one sky for each of the other birth places
GenerateInputs ==
    { <<DefaultBirth, in[1], in[2]>> : in \in ChartInputs }
    \cup { <<b, a, Table(1, "Moon", a, 1)>> : b \in BirthSamples, a \in AscRefLons }

\* the sky at the transit timestamp: the node at either end of any sign
TransitTables ==
    { Table(1, "Rahu", s * SignSpan + d, 1) :
        s \in 0..11, d \in {0, SignSpan - 1} }

\* birth_profile.birth_date of the stored profile
ProfileBirthDate == Date(1990, 5, 15)

\* the leap days a balance Mahadasha is made to end on: the full periods
\* after them reach leap years, common years and the common year 2100
LeapDays == { Date(2024, 2, 29), Date(2080, 2, 29) }

\* birth dates for a Moon longitude: a leap day, a year end, and the days
\* from which the balance Mahadasha ends on a leap day
BirthDates(moon_degree) ==
    { Date(2000, 2, 29), Date(1999, 12, 31) }
    \cup { AddDays(d, 0 - BalanceDays(moon_degree)) : d \in LeapDays }

\* Moon longitudes for the Dasha calculation: both sides of every nakshatra
\* boundary, and the boundaries that are a whole number of degrees
MoonSamples ==
    { k * NAKSHATRA_SPAN + d :
        k \in 0..26,
        d \in (1..(MaxNakOff * Hundredth)) \cup {NAKSHATRA_SPAN \div 2}
              \cup ((NAKSHATRA_SPAN - MaxNakOff)..(NAKSHATRA_SPAN - 1)) }
    \cup { k * NAKSHATRA_SPAN : k \in {0, 3, 6, 9, 12, 15, 18, 21, 24} }

\* degrees in [0, 30) for the nakshatra resolver: both sides of every pada
\* boundary, and the boundaries that are a whole number of degrees
PadaSamples ==
    { p * (NAKSHATRA_SPAN \div 4) + o : p \in 0..8, o \in 1..MaxNakOff }
    \cup { p * (NAKSHATRA_SPAN \div 4) - o : p \in 1..9, o \in 1..MaxNakOff }
    \cup { p * (NAKSHATRA_SPAN \div 4) : p \in {0, 3, 6} }

(***************************************************************************)
(* Actions                                                                 *)
(***************************************************************************)
Idle ==
    /\ pc = "idle"
    /\ birth = None
    /\ error = None
    /\ chart = None
    /\ doshas = None
    /\ strengths = None
    /\ context = None
    /\ transit = None
    /\ gochar = None

Init ==
    /\ Idle
    /\ billing = None
    /\ ts = None
    /\ ss = None
    /\ dv = None
    /\ tz = None
    /\ nk = None
    /\ vd = None
    /\ mt = None
    /\ rl = None

\* KundaliEngine.generate: the birth input goes to KundaliCalculator.calculate
\* unchecked; swe.houses answers with the tropical ascendant
Generate ==
    /\ pc = "idle"
    /\ \E in \in GenerateInputs, ayanamsa \in AyanamsaSamples :
         /\ birth' = in[1]
         /\ chart' = GenerateChart((in[2] + ayanamsa) % FullCircle, ayanamsa, in[3])
    /\ error' = None
    /\ pc' = "chart"
    /\ UNCHANGED <<doshas, strengths, context, transit, gochar, nk, vd, mt, rl, tz, dv, ss, ts, billing>>

\* KundaliEngine.generate when swe.houses does not answer: the house system
\* asked for (Placidus) has no cusps at or beyond a pole, and whether the
\* library then raises depends on the build; its error reaches the caller
GenerateRaises ==
    /\ pc = "idle"
    /\ \E b \in BirthSamples :
         /\ (b.latitude <= -90 \/ b.latitude >= 90)
         /\ birth' = b
    /\ error' = "swe.Error"
    /\ UNCHANGED <<pc, chart, doshas, strengths, context, transit, gochar, nk, vd,
                   mt, rl, tz, dv, ss, ts, billing>>

\* DoshaCalculator.calculate on the generated chart
CalculateDoshas ==
    /\ pc = "chart"
    /\ doshas' = DoshaCalculate(chart)
    /\ pc' = "doshas"
    /\ UNCHANGED <<chart, strengths, context, transit, gochar, nk, vd, birth, error, mt, rl, tz, dv, ss, ts, billing>>

\* HouseCalculator.calculate on the generated chart
CalculateHouseStrengths ==
    /\ pc = "doshas"
    /\ strengths' = HouseCalculate(chart)
    /\ pc' = "derived"
    /\ UNCHANGED <<chart, doshas, context, transit, gochar, nk, vd, birth, error, mt, rl, tz, dv, ss, ts, billing>>

\* ReportService.build_report_context
BuildReportContext ==
    /\ pc = "derived"
    /\ \E lost \in DaysLost(chart.planets["Moon"].degree) :
         context' = DerivedData(chart, ProfileBirthDate, lost)
    /\ pc' = "reported"
    /\ UNCHANGED <<chart, doshas, strengths, transit, gochar, nk, vd, birth, error, mt, rl, tz, dv, ss, ts, billing>>

\* QueryRouter.answer
Answer ==
    /\ pc = "derived"
    /\ \E lost \in DaysLost(chart.planets["Moon"].degree) :
         context' = DerivedData(chart, ProfileBirthDate, lost)
    /\ pc' = "answered"
    /\ UNCHANGED <<chart, doshas, strengths, transit, gochar, nk, vd, birth, error, mt, rl, tz, dv, ss, ts, billing>>

\* TransitBuilder.build
BuildTransit ==
    /\ pc = "derived"
    /\ \E eph \in TransitTables :
         /\ transit' = TransitCalculate(eph)
         /\ gochar' = GocharCalculate(chart, TransitCalculate(eph))
    /\ pc' = "transited"
    /\ UNCHANGED <<chart, doshas, strengths, context, nk, vd, birth, error, mt, rl, tz, dv, ss, ts, billing>>

\* the request ends; its value objects are dropped
Finish ==
    /\ pc \in {"reported", "answered", "transited"}
    /\ pc' = "idle"
    /\ chart' = None
    /\ doshas' = None
    /\ strengths' = None
    /\ context' = None
    /\ transit' = None
    /\ gochar' = None
    /\ birth' = None
    /\ UNCHANGED <<nk, vd, error, mt, rl, tz, dv, ss, ts, billing>>

Next ==
    \/ Generate
    \/ GenerateRaises
    \/ CalculateDoshas
    \/ CalculateHouseStrengths
    \/ BuildReportContext
    \/ Answer
    \/ BuildTransit
    \/ Finish

Spec == Init /\ [][Next]_vars

(***************************************************************************)
(* The nakshatra resolver on its own: every sign, degrees round every      *)
(* pada boundary                                                           *)
(***************************************************************************)
InitNakshatra ==
    /\ Idle
    /\ billing = None
    /\ ts = None
    /\ ss = None
    /\ dv = None
    /\ tz = None
    /\ vd = None
    /\ mt = None
    /\ rl = None
    /\ nk \in { [ sign |-> s, degree |-> d, pos |-> "call", result |-> None,
                  label |-> None ] :
                  s \in Signs, d \in PadaSamples }

ResolveNakshatra ==
    /\ nk.pos = "call"
    /\ nk' = [ nk EXCEPT !.pos = "resolved",
                         !.result = NakshatraCalculate(nk.sign, nk.degree) ]
    /\ UNCHANGED <<pc, chart, doshas, strengths, context, transit, gochar, vd, birth, error, mt, rl, tz, dv, ss, ts, billing>>

\* KundaliCalculator._calculate_nakshatra on the same absolute degree
LabelNakshatra ==
    /\ nk.pos = "resolved"
    /\ nk' = [ nk EXCEPT !.pos = "return",
                         !.label = CalculateNakshatra(
                                       SignIndex(nk.sign) * SignSpan + nk.degree) ]
    /\ UNCHANGED <<pc, chart, doshas, strengths, context, transit, gochar, vd, birth, error, mt, rl, tz, dv, ss, ts, billing>>

NextNakshatra ==
    \/ ResolveNakshatra
    \/ LabelNakshatra

SpecNakshatra == InitNakshatra /\ [][NextNakshatra]_vars

(***************************************************************************)
(* The Dasha calculation on its own: every Moon absolute degree sampled    *)
(***************************************************************************)
InitDasha ==
    /\ Idle
    /\ billing = None
    /\ ts = None
    /\ ss = None
    /\ dv = None
    /\ tz = None
    /\ nk = None
    /\ mt = None
    /\ rl = None
    /\ \E m \in MoonSamples :
         vd \in { [ moon_degree |-> m, birth_date |-> b, pos |-> "call",
                    dashas |-> None ] : b \in BirthDates(m) }

CalculateDasha ==
    /\ vd.pos = "call"
    /\ \E lost \in DaysLost(vd.moon_degree) :
         vd' = [ vd EXCEPT !.pos = "return",
                           !.dashas = CalculateVimshottariDasha(vd.moon_degree,
                                                                vd.birth_date, lost) ]
    /\ UNCHANGED <<pc, chart, doshas, strengths, context, transit, gochar, nk, birth, error, mt, rl, tz, dv, ss, ts, billing>>

NextDasha == CalculateDasha

SpecDasha == InitDasha /\ [][NextDasha]_vars

(***************************************************************************)
(* The Ashta Koot matching on its own: every pair of sampled Moon          *)
(* positions                                                               *)
(***************************************************************************)
InitMatching ==
    /\ Idle
    /\ billing = None
    /\ ts = None
    /\ ss = None
    /\ dv = None
    /\ tz = None
    /\ nk = None
    /\ vd = None
    /\ rl = None
    /\ mt \in { [ boy_moon_sign |-> bs, boy_moon_degree |-> bd,
                  girl_moon_sign |-> gs, girl_moon_degree |-> gd,
                  pos |-> "call", result |-> None, swapped |-> None ] :
                  bs \in MatchSigns, bd \in MatchDegrees,
                  gs \in MatchSigns, gd \in MatchDegrees }

CalculateMatch ==
    /\ mt.pos = "call"
    /\ mt' = [ mt EXCEPT !.pos = "return",
                         !.result = CalculateAshtaKoot(
                                        mt.boy_moon_sign, mt.boy_moon_degree,
                                        mt.girl_moon_sign, mt.girl_moon_degree) ]
    /\ UNCHANGED <<pc, chart, doshas, strengths, context, transit, gochar, nk, vd,
                   birth, error, rl, tz, dv, ss, ts, billing>>

\* calculate_ashta_koot called again with the two Moons exchanged
CalculateSwapped ==
    /\ mt.pos = "return"
    /\ mt' = [ mt EXCEPT !.pos = "swapped",
                         !.swapped = CalculateAshtaKoot(
                                         mt.girl_moon_sign, mt.girl_moon_degree,
                                         mt.boy_moon_sign, mt.boy_moon_degree) ]
    /\ UNCHANGED <<pc, chart, doshas, strengths, context, transit, gochar, nk, vd,
                   birth, error, rl, tz, dv, ss, ts, billing>>

NextMatching == CalculateMatch \/ CalculateSwapped

SpecMatching == InitMatching /\ [][NextMatching]_vars

(***************************************************************************)
(* Rule samples                                                            *)
(***************************************************************************)
\* a mapping clause; every key is {} when absent
Clause(entity, name, house, sign, strength, present) ==
    [ type |-> "dict", entity |-> entity, name |-> name, house |-> house,
      sign |-> sign, strength |-> strength, present |-> present ]

\* a clause that is not a mapping: a string or null
NonMapping(type) ==
    [ type |-> type, entity |-> {}, name |-> {}, house |-> {}, sign |-> {},
      strength |-> {}, present |-> {} ]

PlanetClauses ==
    { Clause({"planet"}, {"Jupiter"}, {10}, {}, {}, {}),
      Clause({"planet"}, {"Jupiter"}, {}, {"Leo"}, {}, {}),
      Clause({"planet"}, {"Mars"}, {}, {}, {}, {}),
      Clause({"planet"}, {"Saturn"}, {5}, {"Virgo"}, {}, {}) }

HouseClauses ==
    { Clause({"house"}, {}, {4}, {}, {}, {}),
      Clause({"house"}, {}, {2}, {}, {"strong"}, {}),
      Clause({"house"}, {}, {5}, {}, {"weak"}, {}) }

DoshaClauses ==
    { Clause({"dosha"}, {"Mangal Dosha"}, {}, {}, {}, {}),
      Clause({"dosha"}, {"Mangal Dosha"}, {}, {}, {}, {FALSE}),
      Clause({"dosha"}, {"Kaal Sarp Dosha"}, {}, {}, {}, {TRUE}) }

\* unknown entity type, no entity key, a planet clause without a name, a
\* planet the chart never holds, a string, null
MalformedClauses ==
    { Clause({"yoga"}, {"Gajakesari"}, {}, {}, {}, {}),
      Clause({}, {"Jupiter"}, {10}, {}, {}, {}),
      Clause({"planet"}, {}, {10}, {}, {}, {}),
      NonMapping("str"),
      NonMapping("null") }

ClauseSamples == PlanetClauses \cup HouseClauses \cup DoshaClauses \cup MalformedClauses

\* sequences of at most n clauses
ClauseLists(n) == UNION { [ 1..k -> ClauseSamples ] : k \in 0..n }

\* the value under "all" / "any": a list of clauses, a string of two
\* characters, null, a number
ListValue(items) == [ vk |-> "list", items |-> items ]
NonListValues ==
    { [ vk |-> "str", items |-> << NonMapping("str"), NonMapping("str") >> ],
      [ vk |-> "null", items |-> << >> ],
      [ vk |-> "int", items |-> << >> ] }

TreeValues == { ListValue(items) : items \in ClauseLists(MaxClauses) } \cup NonListValues

\* rule.conditions: a mapping with "all", with "any", with both or with
\* neither; a string or a list holding the word "all" or not; null; a number
ConditionSamples ==
    { [ kind |-> "dict", all |-> {v}, any |-> {} ] : v \in TreeValues }
    \cup { [ kind |-> "dict", all |-> {}, any |-> {v} ] : v \in TreeValues }
    \cup { [ kind |-> "dict", all |-> {v}, any |-> {w} ] :
             v \in NonListValues, w \in { ListValue(<< c >>) : c \in PlanetClauses } }
    \cup { [ kind |-> k, all |-> a, any |-> {} ] :
             k \in {"dict", "str", "list"}, a \in { {}, {ListValue(<< >>)} } }
    \cup { [ kind |-> k, all |-> {}, any |-> {} ] : k \in {"null", "int"} }

\* a rule that matches every chart holding Mars
MarsRule ==
    [ rule_key |-> "mars_anywhere",
      conditions |-> [ kind |-> "dict",
                       all |-> { ListValue(<< Clause({"planet"}, {"Mars"}, {}, {}, {}, {}) >>) },
                       any |-> {} ] ]

\* repo.list_active(): the sampled rule alone, or followed by the Mars rule
RuleLists ==
    { << [ rule_key |-> "sampled", conditions |-> c ] >> : c \in ConditionSamples }
    \cup { << [ rule_key |-> "sampled", conditions |-> c ], MarsRule >> :
             c \in ConditionSamples }

\* the key subset of a chart's planets
Without(kundali, names) ==
    [ kundali EXCEPT !.planets =
        [ n \in (DOMAIN kundali.planets) \ names |-> kundali.planets[n] ] ]

\* charts for the rules: Jupiter in house 10, Jupiter in Leo in house 4, a
\* chart whose planets lack Jupiter and Mars, and one with every planet
\* between the nodes
RuleCharts ==
    LET ayanamsa == ValueOf(AyanamsaSamples)
        asc == (ValueOf(AscRefLons) + ayanamsa) % FullCircle
        a == GenerateChart(asc, ayanamsa, Table(1, "Jupiter", 315 * 300, 1))
        b == GenerateChart(asc, ayanamsa, Table(2, "Moon", 100 * 300, 1))
        c == GenerateChart(asc, ayanamsa, Table(1, "Moon", 45 * 300, 1))
    IN  { a, b, Without(b, {"Jupiter", "Mars"}), c }

\* a Python list: its identity and its items
ListObject(id, items) == [ id |-> id, items |-> items ]

\* DerivedAstrology of a chart, or None; the reasons of each HouseStrength
\* are a list object of their own
DerivedSamples(kundali) ==
    { {}, { [ doshas |-> DoshaCalculate(kundali),
              house_strengths |->
                [ h \in 1..12 |->
                    [ HouseCalculate(kundali)[h] EXCEPT
                        !.reasons = ListObject(<< "house_strengths", h >>, @) ] ] ] } }

(***************************************************************************)
(* Rule evaluation: RuleEngine._evaluate_rule on the first rule,           *)
(* RuleEngine.evaluate on the rule list, RuleMatcher.match on one clause   *)
(***************************************************************************)
\* the clauses held as list items by the rules
ClausesOf(rules) ==
    UNION { { v.items[i] : i \in 1..Len(v.items) } :
              v \in UNION { rules[j].conditions.all \cup rules[j].conditions.any :
                              j \in 1..Len(rules) } }

InitRules ==
    /\ Idle
    /\ billing = None
    /\ ts = None
    /\ ss = None
    /\ dv = None
    /\ tz = None
    /\ nk = None
    /\ vd = None
    /\ mt = None
    /\ \E k \in RuleCharts :
         rl \in { [ kundali |-> k, derived |-> d, rules |-> rs, pos |-> "call",
                    tree |-> None, evaluated |-> None, condition |-> None,
                    match |-> None ] :
                    d \in DerivedSamples(k), rs \in RuleLists }

\* RuleEngine._evaluate_rule(kundali, rule.conditions) for the first rule
EvaluateFirstRule ==
    /\ rl.pos = "call"
    /\ rl' = [ rl EXCEPT !.pos = "tree",
                         !.tree = EvaluateRule(rl.kundali, rl.rules[1].conditions) ]
    /\ UNCHANGED <<pc, chart, doshas, strengths, context, transit, gochar, nk, vd,
                   birth, error, mt, tz, dv, ss, ts, billing>>

\* RuleEngine.evaluate(kundali, rules)
EvaluateRules ==
    /\ rl.pos = "tree"
    /\ rl' = [ rl EXCEPT !.pos = "evaluated",
                         !.evaluated = Evaluate(rl.kundali, rl.rules) ]
    /\ UNCHANGED <<pc, chart, doshas, strengths, context, transit, gochar, nk, vd,
                   birth, error, mt, tz, dv, ss, ts, billing>>

\* RuleMatcher.match(kundali, derived, condition) for one clause of the rules
MatchCondition ==
    /\ rl.pos = "evaluated"
    /\ \E condition \in ClausesOf(rl.rules) :
         rl' = [ rl EXCEPT !.pos = "matched",
                           !.condition = condition,
                           !.match = RuleMatch(rl.kundali, rl.derived, condition) ]
    /\ UNCHANGED <<pc, chart, doshas, strengths, context, transit, gochar, nk, vd,
                   birth, error, mt, tz, dv, ss, ts, billing>>

\* list.append(item) on the list object of the given identity: every
\* HouseStrength of the derived facts holding that object shows the item
AppendedTo(derived, id, item) ==
    { [ d EXCEPT !.house_strengths =
          [ h \in DOMAIN d.house_strengths |->
              IF d.house_strengths[h].reasons.id = id
              THEN [ d.house_strengths[h] EXCEPT
                       !.reasons.items = Append(@, item) ]
              ELSE d.house_strengths[h] ] ] : d \in derived }

\* the caller changes the trigger it was handed: it appends to the reasons
\* list of the snapshot, or stores another key in the trigger
MutateReturned ==
    /\ rl.pos = "matched"
    /\ rl.match.raised = None
    /\ rl.match.ok
    /\ \/ /\ rl.match.trigger.entity_type = "house"
          /\ rl' = [ rl EXCEPT
                       !.pos = "mutated",
                       !.match.trigger.snapshot.reasons.items = Append(@, "tampered"),
                       !.derived = AppendedTo(rl.derived,
                                              rl.match.trigger.snapshot.reasons.id,
                                              "tampered") ]
       \/ rl' = [ rl EXCEPT !.pos = "mutated",
                            !.match.trigger.entity_key = "tampered" ]
    /\ UNCHANGED <<pc, chart, doshas, strengths, context, transit, gochar, nk, vd,
                   birth, error, mt, tz, dv, ss, ts, billing>>

NextRules == EvaluateFirstRule \/ EvaluateRules \/ MatchCondition \/ MutateReturned

SpecRules == InitRules /\ [][NextRules]_vars

(***************************************************************************)
(* Chart generation for a timezone string, and for the same civil date and *)
(* time with timezone 'UTC'                                                *)
(***************************************************************************)
\* the ephemeris at a Julian day: the ascendant turns once a day, the Moon
\* moves 13.2 degrees a day, the slower bodies stay where they are
SkyAt(julian_day) ==
    [ tropical_asc |-> (75 * julian_day) % FullCircle,
      eph |-> Table(1, "Moon", ((11 * julian_day) \div 4) % FullCircle, 1) ]

\* KundaliCalculator.calculate followed by KundaliEngine.generate
Calculate(birth_dt, timezone) ==
    LET birth_dt_utc == ToUtcDatetime(birth_dt, timezone)
        julian_day == JulianDay(birth_dt_utc)
        sky == SkyAt(julian_day)
    IN  GenerateChart(sky.tropical_asc, ValueOf(AyanamsaSamples), sky.eph)

\* recognized zones and strings that name no zone
TimezoneSamples ==
    DOMAIN ZoneOffsets \cup UnnormalizedKeys \cup {"IST", "Not/AZone"}

\* civil birth times: whole hours of the second day after the epoch, and
\* half past five
CivilTimes == { 1440 + 60 * h : h \in 0..MaxCivilHours } \cup { 1440 + 330 }

InitTimezone ==
    /\ Idle
    /\ billing = None
    /\ ts = None
    /\ ss = None
    /\ dv = None
    /\ nk = None
    /\ vd = None
    /\ mt = None
    /\ rl = None
    /\ tz \in { [ birth_dt |-> t, timezone |-> z, pos |-> "call",
                  chart |-> None, utc_chart |-> None ] :
                  t \in CivilTimes, z \in TimezoneSamples }

\* generate(birth) with the given timezone string
CalculateForTimezone ==
    /\ tz.pos = "call"
    /\ tz' = [ tz EXCEPT !.pos = "built",
                         !.chart = Calculate(tz.birth_dt, tz.timezone) ]
    /\ UNCHANGED <<pc, chart, doshas, strengths, context, transit, gochar, nk, vd,
                   birth, error, mt, rl, dv, ss, ts, billing>>

\* generate(birth) for the same date, time and place with timezone 'UTC'
CalculateForUTC ==
    /\ tz.pos = "built"
    /\ tz' = [ tz EXCEPT !.pos = "both",
                         !.utc_chart = Calculate(tz.birth_dt, "UTC") ]
    /\ UNCHANGED <<pc, chart, doshas, strengths, context, transit, gochar, nk, vd,
                   birth, error, mt, rl, dv, ss, ts, billing>>

NextTimezone == CalculateForTimezone \/ CalculateForUTC

SpecTimezone == InitTimezone /\ [][NextTimezone]_vars

(***************************************************************************)
(* Divisional charts of a generated chart                                  *)
(***************************************************************************)
\* degrees in sign on the chart's grid of hundredths, within MaxOff
\* hundredths of a navamsha or dashamsha boundary, inside [0, 30)
DivisionalDegrees ==
    { g \in { Hundredth * i : i \in 0..((SignSpan \div Hundredth) - 1) } :
        \E b \in { NAVAMSHA_SPAN * k : k \in 0..9 } \cup { DASHAMSHA_SPAN * k : k \in 0..10 } :
            g - b \in (-(Hundredth * MaxOff))..(Hundredth * MaxOff) }

\* charts with the Moon and the ascendant at a sampled degree of any sign
DivisionalCharts ==
    { GenerateChart((s * SignSpan + d + ValueOf(AyanamsaSamples)) % FullCircle,
                    ValueOf(AyanamsaSamples),
                    Table(2, "Moon", ((s + 5) % 12) * SignSpan + d, v)) :
        s \in 0..11, d \in DivisionalDegrees, v \in {-1, 1} }

InitDivisional ==
    /\ Idle
    /\ billing = None
    /\ ts = None
    /\ ss = None
    /\ nk = None
    /\ vd = None
    /\ mt = None
    /\ rl = None
    /\ tz = None
    /\ dv \in { [ kundali |-> k, pos |-> "call", result |-> None ] :
                  k \in DivisionalCharts }

\* DivisionalBuilder.build(kundali)
BuildDivisional ==
    /\ dv.pos = "call"
    /\ dv' = [ dv EXCEPT !.pos = "return", !.result = DivisionalBuild(dv.kundali) ]
    /\ UNCHANGED <<pc, chart, doshas, strengths, context, transit, gochar, nk, vd,
                   birth, error, mt, rl, tz, ss, ts, billing>>

NextDivisional == BuildDivisional

SpecDivisional == InitDivisional /\ [][NextDivisional]_vars

(***************************************************************************)
(* Sade Sati of a natal Moon sign on a check date                          *)
(***************************************************************************)
InitSadeSati ==
    /\ Idle
    /\ billing = None
    /\ ts = None
    /\ nk = None
    /\ vd = None
    /\ mt = None
    /\ rl = None
    /\ tz = None
    /\ dv = None
    /\ ss \in { [ natal_moon_sign |-> m, saturn_lon |-> l, pos |-> "call",
                  result |-> None ] : m \in Signs, l \in AscLons }

\* calculate_sade_sati(natal_moon_sign, check_date)
SadeSati ==
    /\ ss.pos = "call"
    /\ ss' = [ ss EXCEPT !.pos = "return",
                         !.result = CalculateSadeSati(ss.natal_moon_sign, ss.saturn_lon) ]
    /\ UNCHANGED <<pc, chart, doshas, strengths, context, transit, gochar, nk, vd,
                   birth, error, mt, rl, tz, dv, ts, billing>>

NextSadeSati == SadeSati

SpecSadeSati == InitSadeSati /\ [][NextSadeSati]_vars

(***************************************************************************)
(* TransitService.get_current: calls for stored kundalis as time passes    *)
(***************************************************************************)
\* TransitEngine.calculate: the sky of the timestamp (seconds; the
\* ephemeris is read per minute) and the timestamp itself
TransitEngineCalculate(timestamp) ==
    LET c == TransitCalculate(SkyAt(timestamp \div 60).eph)
    IN  [ timestamp |-> timestamp,
          planets |-> c.planets,
          calculation_version |-> c.calculation_version ]

\* TransitBuilder.build
TransitBuild(kundali, timestamp, now) ==
    LET at == IF timestamp = {} THEN now ELSE ValueOf(timestamp)
        transit_chart == TransitEngineCalculate(at)
    IN  [ transit |-> transit_chart,
          gochar |-> GocharCalculate(kundali, transit_chart) ]

\* TransitService.get_current: the value returned and the cache left behind
GetCurrentResult(cache, kundali_core_id, kundali_chart, timestamp, now) ==
    LET key == TransitKey(kundali_core_id)
        cached == CacheGet(cache, key, now)
        result == TransitBuild(kundali_chart, timestamp, now)
    IN  IF cached # {}
        THEN [ value |-> ValueOf(cached), cache |-> cache ]
        ELSE [ value |-> result,
               cache |-> CacheSet(cache, key, result, TRANSIT, now) ]

\* the stored kundalis
KundaliCoreIds == {"k1", "k2"}

StoredChart(kundali_core_id) ==
    IF kundali_core_id = "k1" THEN Calculate(1440, "UTC")
                              ELSE Calculate(1440, "Asia/Kolkata")

\* the timestamp argument: absent, or an hour or two past the epoch
TimestampSamples == { {}, {3600}, {7200} }

InitTransitService ==
    /\ Idle
    /\ billing = None
    /\ ss = None
    /\ dv = None
    /\ tz = None
    /\ nk = None
    /\ vd = None
    /\ mt = None
    /\ rl = None
    /\ ts = [ now |-> 0, cache |-> EmptyDict, call |-> {}, result |-> {} ]

\* one call of get_current, from its cache lookup to its return
GetCurrent ==
    /\ \E id \in KundaliCoreIds, timestamp \in TimestampSamples :
         LET r == GetCurrentResult(ts.cache, id, StoredChart(id), timestamp, ts.now)
         IN  ts' = [ ts EXCEPT !.cache = r.cache,
                               !.call = { [ kundali_core_id |-> id,
                                            timestamp |-> timestamp,
                                            at |-> ts.now ] },
                               !.result = { r.value } ]
    /\ UNCHANGED <<pc, chart, doshas, strengths, context, transit, gochar, nk, vd, birth, error, mt, rl, tz, dv, ss, billing>>

\* half a TTL passes
TimePasses ==
    /\ ts.now < MaxHalfTTLs * (TRANSIT \div 2)
    /\ ts' = [ ts EXCEPT !.now = @ + (TRANSIT \div 2) ]
    /\ UNCHANGED <<pc, chart, doshas, strengths, context, transit, gochar, nk, vd, birth, error, mt, rl, tz, dv, ss, billing>>

NextTransitService == GetCurrent \/ TimePasses

SpecTransitService == InitTransitService /\ [][NextTransitService]_vars

(***************************************************************************)
(* VoiceService.answer_stream: concurrent requests of one user             *)
(***************************************************************************)
\* the user's active subscription: none, free, or a plan with no quota table
SubscriptionSamples == { {}, { [ plan |-> "free" ] }, { [ plan |-> "trial" ] } }

\* the usage rows the month starts the run with, within the quota
UsageLogSamples ==
    { << >>,
      << UsageLog("ask_llm", 1, 1) >>,
      << UsageLog("voice", 1, 0), UsageLog("voice", 1, 0), UsageLog("voice", 1, 0) >>,
      << UsageLog("voice", 1, 1) >> }

Requests == 1..MaxRequests

InitBilling ==
    /\ Idle
    /\ ss = None
    /\ dv = None
    /\ tz = None
    /\ nk = None
    /\ vd = None
    /\ mt = None
    /\ rl = None
    /\ ts = None
    /\ \E sub \in SubscriptionSamples, log \in UsageLogSamples :
         /\ CountMonthlyUsage(log, "voice", 1) <= GetQuotaLimit(sub, "voice")
         /\ billing = [ sub |-> sub, month |-> 1, usage_log |-> log,
                   pos |-> [ r \in Requests |-> "received" ] ]

\* BillingService.assert_quota at the head of answer_stream
AssertQuota(r) ==
    /\ billing.pos[r] = "received"
    /\ LET used == CountMonthlyUsage(billing.usage_log, "voice", billing.month)
           limit == GetQuotaLimit(billing.sub, "voice")
       IN  billing' = [ billing EXCEPT !.pos[r] = IF used + 1 > limit
                                         THEN "QuotaExceededError"
                                         ELSE "working" ]
    /\ UNCHANGED <<pc, chart, doshas, strengths, context, transit, gochar, nk, vd, birth, error, mt, rl, tz, dv, ss, ts>>

\* speech to text, the streamed answer and the audio, each awaited
Work(r) ==
    /\ billing.pos[r] = "working"
    /\ billing' = [ billing EXCEPT !.pos[r] = "answered" ]
    /\ UNCHANGED <<pc, chart, doshas, strengths, context, transit, gochar, nk, vd, birth, error, mt, rl, tz, dv, ss, ts>>

\* BillingService.log_usage at the tail of answer_stream
LogUsage(r) ==
    /\ billing.pos[r] = "answered"
    /\ billing' = [ billing EXCEPT !.pos[r] = "logged",
                         !.usage_log = Append(@, UsageLog("voice", 1, billing.month)) ]
    /\ UNCHANGED <<pc, chart, doshas, strengths, context, transit, gochar, nk, vd, birth, error, mt, rl, tz, dv, ss, ts>>

NextBilling == \E r \in Requests : AssertQuota(r) \/ Work(r) \/ LogUsage(r)

SpecBilling == InitBilling /\ [][NextBilling]_vars

(***************************************************************************)
(* Properties                                                              *)
(***************************************************************************)
\* the absolute longitude a stored position stands for: signIndex*30 + degree
AbsoluteDegree(p) == SignIndex(p.sign) * SignSpan + p.degree

\* C1: whole-sign house numbering.  Every planet of a built chart is in
\* house ((index(sign) - index(ascendant sign)) mod 12) + 1, which is house 1
\* exactly for the ascendant's own sign; the house -> sign table lists the
\* twelve signs once each, starts at the ascendant's sign and holds the
\* planet's sign at the planet's house; the gochar house from Lagna and from
\* Moon obeys the same formula; and for every reference sign the map
\* target -> house is a bijection onto 1..12.
HouseNumbering ==
    /\ pc = "idle" => \A a \in Signs :
         /\ HouseFromReference(a, a) = 1
         /\ { HouseFromReference(a, t) : t \in Signs } = 1..12
         /\ \A t \in Signs :
              HouseFromReference(a, t) = ((SignIndex(t) - SignIndex(a)) % 12) + 1
    /\ pc # "idle" =>
         /\ \A n \in DOMAIN chart.planets :
              LET p == chart.planets[n]
              IN  /\ p.house =
                       ((SignIndex(p.sign) - SignIndex(chart.ascendant.sign)) % 12) + 1
                  /\ (p.house = 1) <=> (p.sign = chart.ascendant.sign)
                  /\ chart.houses[p.house] = p.sign
         /\ chart.houses[1] = chart.ascendant.sign
         /\ { chart.houses[h] : h \in 1..12 } = Signs
         /\ \A h \in 1..12 :
              ((SignIndex(chart.houses[h]) - SignIndex(chart.ascendant.sign)) % 12) + 1 = h
    /\ pc = "transited" =>
         \A n \in DOMAIN gochar.planets :
            /\ chart.houses[gochar.planets[n].from_lagna_house] = transit.planets[n].sign
            /\ gochar.planets[n].from_moon_house =
                 ((SignIndex(transit.planets[n].sign)
                     - SignIndex(chart.planets["Moon"].sign)) % 12) + 1

\* C1 witness: a chart and a gochar with planets in the first, the last and
\* an opposite house
HouseNumberingWitness ==
    /\ pc = "transited"
    /\ chart.planets["Mars"].house = 12
    /\ chart.planets["Sun"].house = 1
    /\ gochar.planets["Ketu"].from_lagna_house = 7
    /\ gochar.planets["Rahu"].from_moon_house = 12

\* C2: every planet of a built chart has its stored degree in [0, 30) and
\* its house in 1..12, and the ascendant's stored degree is in [0, 30).
DegreesInRange ==
    pc # "idle" =>
        /\ \A n \in DOMAIN chart.planets :
              /\ chart.planets[n].degree >= 0
              /\ chart.planets[n].degree < SignSpan
              /\ chart.planets[n].house \in 1..12
        /\ chart.ascendant.degree >= 0
        /\ chart.ascendant.degree < SignSpan

\* C3: in every natal chart and every transit chart Ketu's absolute
\* longitude is Rahu's plus 180 degrees modulo 360, and Ketu is retrograde.
KetuOppositeRahu ==
    /\ pc # "idle" =>
         /\ AbsoluteDegree(chart.planets["Ketu"]) =
              (AbsoluteDegree(chart.planets["Rahu"]) + 180 * 300) % FullCircle
         /\ chart.planets["Ketu"].retrograde
    /\ pc = "transited" =>
         /\ AbsoluteDegree(transit.planets["Ketu"]) =
              (AbsoluteDegree(transit.planets["Rahu"]) + 180 * 300) % FullCircle
         /\ transit.planets["Ketu"].retrograde

\* C3 witness: natal Rahu direct and rounded up to 30.00 in Pisces, over a
\* transit whose Rahu is direct as well
KetuOppositeRahuWitness ==
    /\ pc = "transited"
    /\ chart.planets["Rahu"].sign = "Pisces"
    /\ chart.planets["Rahu"].degree = SignSpan
    /\ ~chart.planets["Rahu"].retrograde
    /\ ~transit.planets["Rahu"].retrograde
    /\ transit.planets["Rahu"].degree = SignSpan

VimshottariOrder ==
    << "Ketu", "Venus", "Sun", "Moon", "Mars", "Rahu", "Jupiter", "Saturn",
       "Mercury" >>

VimshottariYears ==
    [ Ketu |-> 7, Venus |-> 20, Sun |-> 6, Moon |-> 10, Mars |-> 7,
      Rahu |-> 18, Jupiter |-> 16, Saturn |-> 19, Mercury |-> 17 ]

\* floor(absoluteDegree / (360/27)) mod 9
LordIndexOf(absolute_degree) ==
    (((absolute_degree % FullCircle) * 27) \div FullCircle) % 9

\* C5 as stated: the first Mahadasha's lord is the (nakshatraIndex mod 9)-th
\* of the order and its balance is strictly less than that lord's full
\* year-weight for every Moon position, the nakshatra's first point included.
FirstBalanceStrictlyLess ==
    vd.pos = "return" =>
        LET lord == VimshottariOrder[LordIndexOf(vd.moon_degree) + 1]
        IN  /\ vd.dashas[1].lord = lord
            /\ BalanceYearsNum(vd.moon_degree) < VimshottariYears[lord] * NAKSHATRA_SPAN

\* C5 amended: the first Mahadasha's lord is the (nakshatraIndex mod 9)-th of
\* the order; its balance is at most the lord's full year-weight, strictly
\* less exactly when the Moon is past the first point of its nakshatra; at
\* the first point the emitted duration is the full weight, and everywhere
\* the emitted duration is the balance rounded to 0.01 year.
FirstBalanceAtMostFull ==
    vd.pos = "return" =>
        LET lord == VimshottariOrder[LordIndexOf(vd.moon_degree) + 1]
            full == VimshottariYears[lord]
            at_start == (vd.moon_degree % FullCircle) % NAKSHATRA_SPAN = 0
        IN  /\ vd.dashas[1].lord = lord
            /\ BalanceYearsNum(vd.moon_degree) <= full * NAKSHATRA_SPAN
            /\ (BalanceYearsNum(vd.moon_degree) < full * NAKSHATRA_SPAN) <=> ~at_start
            /\ vd.dashas[1].duration_years <= full * 100
            /\ at_start => vd.dashas[1].duration_years = full * 100
            /\ vd.dashas[1].duration_years * NAKSHATRA_SPAN * 2
                 <= BalanceYearsNum(vd.moon_degree) * 200 + NAKSHATRA_SPAN
            /\ vd.dashas[1].duration_years * NAKSHATRA_SPAN * 2
                 >= BalanceYearsNum(vd.moon_degree) * 200 - NAKSHATRA_SPAN

\* C5 witness: Moon at 0 deg Aries, the first point of Ashwini: lord Ketu
\* with the full 7.00 years
FirstBalanceAtMostFullWitness ==
    /\ vd.pos = "return"
    /\ vd.moon_degree = 0
    /\ vd.dashas[1].lord = "Ketu"
    /\ vd.dashas[1].duration_years = 700

\* C6: in the report and question pipelines the first Mahadasha's lord is the
\* one selected by the nakshatra of the natal Moon's absolute degree
\* signIndex * 30 + degreeInSign.
DashaStartsFromAbsoluteMoon ==
    (pc \in {"reported", "answered"} /\ context.raised = None) =>
        context.dashas[1].lord =
            VimshottariOrder[LordIndexOf(AbsoluteDegree(chart.planets["Moon"])) + 1]

RECURSIVE SumMonths(_)
SumMonths(antardashas) ==
    IF antardashas = << >> THEN 0
    ELSE Head(antardashas).duration_months + SumMonths(Tail(antardashas))

\* C7: the nine year-weights sum to 120 and, for every emitted Mahadasha,
\* the nine Antardasha durations (months / 12) sum to its duration_years
\* within 0.01 year.  Months and years are in hundredths, so the tolerance
\* |months/1200 - years/100| <= 1/100 reads |months - 12 * years| <= 12.
AntardashaSumMatches ==
    /\ vd.pos = "call" =>
         SumMonths([ i \in 1..9 |-> [ duration_months |-> dasha_lords[i].years ] ]) = 120
    /\ vd.pos = "return" =>
         \A i \in 1..Len(vd.dashas) :
            LET months == SumMonths(vd.dashas[i].antardashas)
                years == vd.dashas[i].duration_years
            IN  /\ Len(vd.dashas[i].antardashas) = 9
                /\ months - 12 * years <= 12
                /\ 12 * years - months <= 12

\* C8: Mangal Dosha is present iff Mars' house is one of 1, 2, 4, 7, 8, 12,
\* with severity medium when present, in the derived-facts detector and in
\* KundaliCalculator.calculate_mangal_dosha, which agree.
MangalDoshaRule ==
    /\ pc \notin {"idle", "chart"} =>
         /\ doshas[1].present <=> (chart.planets["Mars"].house \in {1, 2, 4, 7, 8, 12})
         /\ doshas[1].present => doshas[1].severity = "medium"
    /\ (pc \in {"reported", "answered"} /\ context.raised = None) =>
         /\ context.dosha_analysis.mangal.present
              <=> (chart.planets["Mars"].house \in {1, 2, 4, 7, 8, 12})
         /\ context.dosha_analysis.mangal.present <=> doshas[1].present

\* d lies on the zodiacal arc running forward from one longitude to another,
\* end points included
OnArc(d, from, to) ==
    ((d - from) % FullCircle) <= ((to - from) % FullCircle)

\* every non-node planet of the chart lies on the arc between two nodes
Hemmed(planets, from, to) ==
    \A n \in (DOMAIN planets) \ {"Rahu", "Ketu"} :
        OnArc(AbsoluteDegree(planets[n]) % FullCircle,
              AbsoluteDegree(planets[from]) % FullCircle,
              AbsoluteDegree(planets[to]) % FullCircle)

\* C9: Kaal Sarp Dosha is present iff every non-node planet's absolute
\* degree lies on the arc Rahu -> Ketu or every one lies on the arc
\* Ketu -> Rahu, end points included, and the result names an arc that
\* matched; in the derived-facts detector and in
\* KundaliCalculator.calculate_kalsarpa_dosha, on every chart.
KaalSarpRule ==
    /\ pc \notin {"idle", "chart"} =>
         doshas[2].present <=>
            (Hemmed(chart.planets, "Rahu", "Ketu") \/ Hemmed(chart.planets, "Ketu", "Rahu"))
    /\ pc \in {"reported", "answered"} =>
         /\ context.raised = None
         /\ context.dosha_analysis.kalsarpa.present <=>
              (Hemmed(chart.planets, "Rahu", "Ketu") \/ Hemmed(chart.planets, "Ketu", "Rahu"))
         /\ context.dosha_analysis.kalsarpa.type = "Anant (Rahu to Ketu)"
              => Hemmed(chart.planets, "Rahu", "Ketu")
         /\ context.dosha_analysis.kalsarpa.type = "Kulat (Ketu to Rahu)"
              => Hemmed(chart.planets, "Ketu", "Rahu")
         /\ context.dosha_analysis.kalsarpa.present = TRUE
              => context.dosha_analysis.kalsarpa.type # None

\* C10: HouseCalculator returns an entry for each house 1..12; with score =
\* (occupants among Jupiter, Venus, Mercury, Moon) - (occupants among Saturn,
\* Mars, Rahu, Ketu, Sun) the label is strong iff score >= 2, weak iff
\* score <= -1, average otherwise; and the reasons hold exactly one entry per
\* contributing occupant.
HouseStrengthRule ==
    pc \notin {"idle", "chart", "doshas"} =>
        /\ DOMAIN strengths = 1..12
        /\ \A h \in 1..12 :
             LET occupants == { n \in DOMAIN chart.planets : chart.planets[n].house = h }
                 benefics == occupants \cap {"Jupiter", "Venus", "Mercury", "Moon"}
                 malefics == occupants \cap {"Saturn", "Mars", "Rahu", "Ketu", "Sun"}
                 score == Cardinality(benefics) - Cardinality(malefics)
                 reasons == strengths[h].reasons
             IN  /\ strengths[h].house = h
                 /\ (strengths[h].strength = "strong") <=> (score >= 2)
                 /\ (strengths[h].strength = "weak") <=> (score <= -1)
                 /\ (strengths[h].strength = "average") <=> (score \in {0, 1})
                 /\ Len(reasons) = Cardinality(benefics \cup malefics)
                 /\ { reasons[i].planet : i \in 1..Len(reasons) } = benefics \cup malefics
                 /\ \A i \in 1..Len(reasons) :
                      /\ reasons[i].house = h
                      /\ (reasons[i].kind = "benefic") <=> (reasons[i].planet \in benefics)

\* C10 witness: one house strong on a score of exactly 2, one house average
\* with two occupants, one house weak
HouseStrengthRuleWitness ==
    /\ pc = "derived"
    /\ \E h \in 1..12 :
         /\ strengths[h].strength = "strong"
         /\ Len(strengths[h].reasons) = 2
    /\ \E h \in 1..12 :
         /\ strengths[h].strength = "average"
         /\ Len(strengths[h].reasons) = 2
    /\ \E h \in 1..12 : strengths[h].strength = "weak"

\* the declared maxima of the eight factors, in order
FactorMax ==
    << << "Varna", 1 >>, << "Vashya", 2 >>, << "Tara", 3 >>, << "Yoni", 4 >>,
       << "Graha Maitri", 5 >>, << "Gana", 6 >>, << "Bhakoot", 7 >>,
       << "Nadi", 8 >> >>

\* C11: for every pair of Moon positions calculate_ashta_koot returns exactly
\* the 8 factors Varna 1, Vashya 2, Tara 3, Yoni 4, Graha Maitri 5, Gana 6,
\* Bhakoot 7, Nadi 8; each score is at least 0 and at most the declared max;
\* total_score is the sum of the 8 scores and lies in [0, 36].  Scores are
\* in half points.
AshtaKootBounded ==
    (mt.pos = "return" /\ mt.result.raised = None) =>
        LET r == mt.result
        IN  /\ r.raised = None
            /\ Len(r.factors) = 8
            /\ \A i \in 1..8 :
                 /\ r.factors[i].name = FactorMax[i][1]
                 /\ r.factors[i].max = FactorMax[i][2]
                 /\ r.factors[i].score >= 0
                 /\ r.factors[i].score <= 2 * r.factors[i].max
            /\ r.total_score =
                 r.factors[1].score + r.factors[2].score + r.factors[3].score
                 + r.factors[4].score + r.factors[5].score + r.factors[6].score
                 + r.factors[7].score + r.factors[8].score
            /\ r.total_score >= 0
            /\ r.total_score <= 2 * 36
            /\ r.max_score = 36

\* C11 witness: a pair whose Varna factor reaches its maximum while the Nadi
\* factor scores nothing, with a fractional Tara score
AshtaKootBoundedWitness ==
    /\ mt.pos = "return"
    /\ mt.result.raised = None
    /\ mt.result.factors[1].score = 2
    /\ mt.result.factors[3].score = 3
    /\ mt.result.factors[8].score = 0
    /\ mt.result.total_score > 2 * 18

\* the inclusive count of signs from one sign to another, 1..12
SignDistance(from, to) == ((SignIndex(to) - SignIndex(from)) % 12) + 1

\* C12: the Bhakoot score is 0 exactly when the unordered pair of inclusive
\* sign distances (boy -> girl, girl -> boy) is {2,12}, {5,9} or {6,8} and
\* 7 otherwise; Aries against Libra is the pair (7,7) with score 7, and
\* equal signs score 7.
BhakootRule ==
    (mt.pos = "return" /\ mt.result.raised = None) =>
        LET pair == { SignDistance(mt.boy_moon_sign, mt.girl_moon_sign),
                      SignDistance(mt.girl_moon_sign, mt.boy_moon_sign) }
            score == mt.result.factors[7].score
        IN  /\ mt.result.factors[7].name = "Bhakoot"
            /\ (score = 0) <=> (pair \in { {2, 12}, {5, 9}, {6, 8} })
            /\ (score # 0) => (score = 2 * 7)
            /\ (mt.boy_moon_sign = mt.girl_moon_sign) => (score = 2 * 7)
            /\ (mt.boy_moon_sign = "Aries" /\ mt.girl_moon_sign = "Libra") =>
                 (pair = {7} /\ score = 2 * 7)

\* C12 witness: the girl's sign is the twelfth from the boy's, the pair
\* looked up in the reverse order
BhakootRuleWitness ==
    /\ mt.pos = "return"
    /\ mt.result.raised = None
    /\ mt.boy_moon_sign = "Taurus"
    /\ mt.girl_moon_sign = "Aries"
    /\ mt.result.factors[7].score = 0

\* floor(absoluteDegree / (360/27)) of a Moon position
MoonNakshatraIndex(sign, degree) ==
    (((SignIndex(sign) * SignSpan) + degree) * 27) \div FullCircle

\* the Nadi buckets as the specification gives them for its example
NadiAdi == {0, 5, 6, 11, 12, 17, 18, 23, 24}

\* C13 as stated: the 27 indices fall in exactly one bucket each, the Nadi
\* score is 0 iff both Moons are in the same bucket and 8 otherwise, and for
\* boy Aries 10 deg (index 0, Ashwini, Adi) and girl Libra 10 deg (190 deg,
\* index 14, Swati) the girl's Nadi is Madhya and the score is 8.
NadiSwatiMadhya ==
    (mt.pos = "return" /\ mt.result.raised = None) =>
        LET bi == MoonNakshatraIndex(mt.boy_moon_sign, mt.boy_moon_degree)
            gi == MoonNakshatraIndex(mt.girl_moon_sign, mt.girl_moon_degree)
            r == mt.result
        IN  /\ r.boy_details.Nadi \in {"Adi", "Madhya", "Antya"}
            /\ r.girl_details.Nadi \in {"Adi", "Madhya", "Antya"}
            /\ (r.factors[8].score = 0) <=> (r.boy_details.Nadi = r.girl_details.Nadi)
            /\ r.factors[8].score \in {0, 2 * 8}
            /\ (mt.boy_moon_sign = "Aries" /\ mt.boy_moon_degree = 10 * 300) =>
                 (bi = 0 /\ r.boy_details.Nakshatra = "Ashwini"
                    /\ r.boy_details.Nadi = "Adi")
            /\ (mt.girl_moon_sign = "Libra" /\ mt.girl_moon_degree = 10 * 300) =>
                 (gi = 14 /\ r.girl_details.Nakshatra = "Swati"
                    /\ r.girl_details.Nadi = "Madhya")

\* C13 amended: as above, but Swati (index 14) is in the Antya bucket; the
\* bucket of a Moon is a function of its nakshatra index, nine indices to
\* each bucket, and the example pair still scores 8.
NadiSwatiAntya ==
    (mt.pos = "return" /\ mt.result.raised = None) =>
        LET bi == MoonNakshatraIndex(mt.boy_moon_sign, mt.boy_moon_degree)
            gi == MoonNakshatraIndex(mt.girl_moon_sign, mt.girl_moon_degree)
            r == mt.result
        IN  /\ \A b \in {"Adi", "Madhya", "Antya"} :
                 Cardinality({ i \in 0..26 : nadi_map[i] = b }) = 9
            /\ r.boy_details.Nadi = nadi_map[bi]
            /\ r.girl_details.Nadi = nadi_map[gi]
            /\ (r.boy_details.Nadi = "Adi") <=> (bi \in NadiAdi)
            /\ (r.factors[8].score = 0) <=> (r.boy_details.Nadi = r.girl_details.Nadi)
            /\ r.factors[8].score \in {0, 2 * 8}
            /\ (mt.boy_moon_sign = "Aries" /\ mt.boy_moon_degree = 10 * 300) =>
                 (bi = 0 /\ r.boy_details.Nakshatra = "Ashwini"
                    /\ r.boy_details.Nadi = "Adi")
            /\ (mt.girl_moon_sign = "Libra" /\ mt.girl_moon_degree = 10 * 300) =>
                 (gi = 14 /\ r.girl_details.Nakshatra = "Swati"
                    /\ r.girl_details.Nadi = "Antya")
            /\ (mt.boy_moon_sign = "Aries" /\ mt.boy_moon_degree = 10 * 300
                  /\ mt.girl_moon_sign = "Libra" /\ mt.girl_moon_degree = 10 * 300) =>
                 r.factors[8].score = 2 * 8

\* C13 witness: the example pair, boy Aries 10 deg and girl Libra 10 deg
NadiSwatiAntyaWitness ==
    /\ mt.pos = "return"
    /\ mt.result.raised = None
    /\ mt.boy_moon_sign = "Aries"
    /\ mt.boy_moon_degree = 10 * 300
    /\ mt.girl_moon_sign = "Libra"
    /\ mt.girl_moon_degree = 10 * 300
    /\ mt.result.girl_details.Nadi = "Antya"
    /\ mt.result.factors[8].score = 2 * 8

\* C14: the Tara score depends only on the inclusive count of nakshatras
\* from the girl's to the boy's reduced to the cycle 1..9: 3 for 3, 5, 7;
\* 1.5 for 1, 2, 4, 6, 8; 0 for 9.
TaraRule ==
    (mt.pos = "return" /\ mt.result.raised = None) =>
        LET bi == MoonNakshatraIndex(mt.boy_moon_sign, mt.boy_moon_degree)
            gi == MoonNakshatraIndex(mt.girl_moon_sign, mt.girl_moon_degree)
            count == ((bi - gi) % 27) + 1
            cycle == ((count - 1) % 9) + 1
            score == mt.result.factors[3].score
        IN  /\ mt.result.factors[3].name = "Tara"
            /\ (cycle \in {3, 5, 7}) <=> (score = 2 * 3)
            /\ (cycle \in {1, 2, 4, 6, 8}) <=> (score = 3)
            /\ (cycle = 9) <=> (score = 0)

\* C14 witness: the boy's nakshatra is the ninth counted from the girl's,
\* which scores nothing
TaraRuleWitness ==
    /\ mt.pos = "return"
    /\ mt.result.raised = None
    /\ mt.boy_moon_sign = "Cancer"
    /\ mt.girl_moon_sign = "Aries"
    /\ mt.boy_moon_degree = 20 * 300
    /\ mt.girl_moon_degree = 0
    /\ mt.result.factors[3].score = 0

\* the planet clause holds in the chart: the chart has the planet, in the
\* required house when one is given and in the required sign when one is given
PlanetClauseHolds(kundali, clause) ==
    /\ clause.type = "dict"
    /\ clause.entity = {"planet"}
    /\ \E n \in clause.name \cap DOMAIN kundali.planets :
         /\ clause.house \subseteq {kundali.planets[n].house}
         /\ clause.sign \subseteq {kundali.planets[n].sign}

\* the results of an evaluation that belong to one rule
ResultsFor(evaluated, rule) ==
    SelectSeq(evaluated.results, LAMBDA r : r.rule = rule)

\* the tree is All over a list of planet clauses
IsAllOfPlanetClauses(conditions) ==
    /\ conditions.kind = "dict"
    /\ conditions.all # {}
    /\ \A v \in conditions.all :
         /\ v.vk = "list"
         /\ \A i \in 1..Len(v.items) :
              v.items[i].type = "dict" /\ v.items[i].entity = {"planet"}

\* C15: a rule whose tree is All of k planet clauses that all hold in the
\* chart gets exactly one result, carrying k triggers in clause order, each
\* of type 'planet', keyed by the planet's name, with a snapshot of that
\* planet's sign, house, degree and retrograde flag; a rule whose tree is
\* false gets no result.
AllPlanetClausesTriggers ==
    rl.pos \in {"evaluated", "matched"} =>
        LET rule == rl.rules[1]
            mine == ResultsFor(rl.evaluated, rule)
        IN  /\ ( /\ IsAllOfPlanetClauses(rule.conditions)
                 /\ \A v \in rule.conditions.all : \A i \in 1..Len(v.items) :
                      PlanetClauseHolds(rl.kundali, v.items[i]) )
               => \A v \in rule.conditions.all :
                    /\ Len(mine) = 1
                    /\ mine[1].matched
                    /\ Len(mine[1].triggered_entities) = Len(v.items)
                    /\ \A i \in 1..Len(v.items) :
                         LET t == mine[1].triggered_entities[i]
                             n == ValueOf(v.items[i].name)
                             planet == rl.kundali.planets[n]
                         IN  /\ t.entity_type = "planet"
                             /\ t.entity_key = n
                             /\ t.snapshot = [ sign |-> planet.sign,
                                               house |-> planet.house,
                                               degree |-> planet.degree,
                                               retrograde |-> planet.retrograde ]
            /\ (rl.tree.raised = None /\ ~rl.tree.matched /\ rl.evaluated.raised = None)
               => Len(mine) = 0

\* C15 witness: All[Jupiter in house 10, Saturn in house 5 in Virgo] on a
\* chart where both hold, evaluated to one result with two triggers, the
\* first for Jupiter
AllPlanetClausesTriggersWitness ==
    /\ rl.pos = "evaluated"
    /\ IsAllOfPlanetClauses(rl.rules[1].conditions)
    /\ \E v \in rl.rules[1].conditions.all :
         /\ Len(v.items) = 2
         /\ v.items[1].name = {"Jupiter"} /\ v.items[1].house = {10}
         /\ v.items[2].name = {"Saturn"}
    /\ Len(ResultsFor(rl.evaluated, rl.rules[1])) = 1
    /\ Len(ResultsFor(rl.evaluated, rl.rules[1])[1].triggered_entities) = 2
    /\ ResultsFor(rl.evaluated, rl.rules[1])[1].triggered_entities[1].entity_key
         = "Jupiter"

\* the clause matches / fails, as RuleEngine._evaluate_clause answers it
ClauseOk(kundali, clause) ==
    LET e == EvaluateClause(kundali, clause) IN e.raised = None /\ e.ok
ClauseFails(kundali, clause) ==
    LET e == EvaluateClause(kundali, clause) IN e.raised = None /\ ~e.ok

\* C16: All over a list matches iff every clause matches, then carrying every
\* trigger in order; a first failing clause ends it unmatched with no
\* triggers, whatever follows that clause.  Any over a list matches iff some
\* clause matches, carrying exactly the trigger of the first matching clause,
\* whatever follows it; with every clause failing it is unmatched.
CombinatorSemantics ==
    rl.pos # "call" =>
        LET c == rl.rules[1].conditions
            k == rl.kundali
        IN  /\ (c.kind = "dict" /\ c.all # {}) =>
                 \A v \in c.all : v.vk = "list" =>
                   /\ (\A i \in 1..Len(v.items) : ClauseOk(k, v.items[i]))
                        => /\ rl.tree.raised = None
                           /\ rl.tree.matched
                           /\ rl.tree.triggers =
                                [ i \in 1..Len(v.items) |->
                                    EvaluateClause(k, v.items[i]).trigger ]
                   /\ \A f \in 1..Len(v.items) :
                        ( /\ ClauseFails(k, v.items[f])
                          /\ \A i \in 1..(f - 1) : ClauseOk(k, v.items[i]) )
                        => /\ rl.tree.raised = None
                           /\ ~rl.tree.matched
                           /\ rl.tree.triggers = << >>
            /\ (c.kind = "dict" /\ c.all = {} /\ c.any # {}) =>
                 \A v \in c.any : v.vk = "list" =>
                   /\ \A m \in 1..Len(v.items) :
                        ( /\ ClauseOk(k, v.items[m])
                          /\ \A i \in 1..(m - 1) : ClauseFails(k, v.items[i]) )
                        => /\ rl.tree.raised = None
                           /\ rl.tree.matched
                           /\ rl.tree.triggers =
                                << EvaluateClause(k, v.items[m]).trigger >>
                   /\ (\A i \in 1..Len(v.items) : ClauseFails(k, v.items[i]))
                        => /\ rl.tree.raised = None
                           /\ ~rl.tree.matched
                           /\ rl.tree.triggers = << >>

\* C16 witness: Any over two matching planet clauses evaluated to the one
\* trigger of the first
CombinatorSemanticsWitness ==
    /\ rl.pos = "tree"
    /\ rl.rules[1].conditions.kind = "dict"
    /\ rl.rules[1].conditions.all = {}
    /\ \E v \in rl.rules[1].conditions.any :
         /\ v.vk = "list"
         /\ Len(v.items) = 2
         /\ v.items[1] # v.items[2]
         /\ ClauseOk(rl.kundali, v.items[1])
         /\ ClauseOk(rl.kundali, v.items[2])
    /\ rl.tree.matched
    /\ Len(rl.tree.triggers) = 1

\* the house clause holds: derived facts hold a strength for the house, and
\* the clause names no strength or names that label
HouseClauseHolds(derived, clause) ==
    \E d \in derived : \E h \in clause.house \cap DOMAIN d.house_strengths :
        clause.strength \subseteq {d.house_strengths[h].strength}

\* the dosha clause holds: a dosha of that name has present equal to the
\* required value, true when the clause names none
DoshaClauseHolds(derived, clause) ==
    \E d \in derived : \E i \in 1..Len(d.doshas) :
        /\ {d.doshas[i].name} = clause.name
        /\ {d.doshas[i].present} = (IF clause.present = {} THEN {TRUE}
                                    ELSE clause.present)

\* RuleMatcher.match on a house or dosha clause answers whether it holds
MatcherHouseDoshaSemantics ==
    (rl.pos = "matched" /\ rl.condition.type = "dict") =>
        /\ rl.condition.entity = {"house"} =>
             (rl.match.ok <=> HouseClauseHolds(rl.derived, rl.condition))
        /\ rl.condition.entity = {"dosha"} =>
             (rl.match.ok <=> DoshaClauseHolds(rl.derived, rl.condition))

\* C17: a house clause matches iff derived facts hold a strength for that
\* house and the strength is omitted or equal; a dosha clause matches iff a
\* dosha of that name has the required presence; and RuleEngine.evaluate on
\* the rule All[clause] gives such a clause the verdict and the trigger that
\* RuleMatcher.match gives it.
HouseDoshaClauseAgreement ==
    ( /\ rl.pos = "matched"
      /\ rl.condition.type = "dict"
      /\ rl.condition.entity \in {{"house"}, {"dosha"}} ) =>
        /\ MatcherHouseDoshaSemantics
        /\ ( /\ rl.rules[1].conditions.kind = "dict"
             /\ rl.rules[1].conditions.all = {ListValue(<< rl.condition >>)} )
           => LET mine == ResultsFor(rl.evaluated, rl.rules[1])
              IN  /\ rl.evaluated.raised = None
                  /\ rl.match.ok <=> (Len(mine) = 1)
                  /\ rl.match.ok =>
                       (Len(mine) = 1 /\ mine[1].triggered_entities = << rl.match.trigger >>)

\* the clause is not a mapping, names an entity type that is none of planet,
\* house and dosha, or lacks the field that identifies its subject
MalformedClause(clause) ==
    \/ clause.type # "dict"
    \/ clause.entity \notin {{"planet"}, {"house"}, {"dosha"}}
    \/ (clause.entity \in {{"planet"}, {"dosha"}} /\ clause.name = {})
    \/ (clause.entity = {"house"} /\ clause.house = {})

\* the rule data is malformed in a way that leaves no tree to satisfy:
\* conditions that are no mapping, hold neither 'all' nor 'any', hold a
\* non-list under the key that is read, or an All holding a malformed clause
MalformedConditions(conditions) ==
    \/ conditions.kind # "dict"
    \/ (conditions.all = {} /\ conditions.any = {})
    \/ \E v \in conditions.all : v.vk # "list"
    \/ (conditions.all = {} /\ \E v \in conditions.any : v.vk # "list")
    \/ \E v \in conditions.all :
         v.vk = "list" /\ \E i \in 1..Len(v.items) : MalformedClause(v.items[i])

\* C18: RuleEngine.evaluate never raises; a rule with malformed data gets no
\* result, and the rules after it are still evaluated, so a following rule
\* that matches the chart still gets its result.
MalformedRulesNeverRaise ==
    rl.pos \in {"evaluated", "matched"} =>
        /\ rl.evaluated.raised = None
        /\ MalformedConditions(rl.rules[1].conditions)
             => Len(ResultsFor(rl.evaluated, rl.rules[1])) = 0
        /\ (Len(rl.rules) = 2 /\ "Mars" \in DOMAIN rl.kundali.planets)
             => Len(ResultsFor(rl.evaluated, rl.rules[2])) = 1

\* C19: the dosha and house-strength calculations never raise: the derived
\* doshas and the twelve house strengths are always produced, a chart
\* without Mars or without a node has the dosha absent, and the report's
\* dosha analysis (calculate_mangal_dosha and calculate_kalsarpa_dosha on
\* the chart's PlanetPosition objects) is produced for every chart,
\* degrees of exactly 0 included.
DerivedFactsNeverRaise ==
    /\ pc \in {"doshas", "derived", "reported", "answered"} =>
         /\ Len(doshas) = 2
         /\ \A i \in 1..2 : doshas[i].present \in BOOLEAN
         /\ "Mars" \notin DOMAIN chart.planets => ~doshas[1].present
         /\ ({"Rahu", "Ketu"} \subseteq DOMAIN chart.planets) \/ ~doshas[2].present
    /\ pc \in {"derived", "reported", "answered"} =>
         /\ DOMAIN strengths = 1..12
         /\ \A h \in 1..12 : strengths[h].strength \in {"strong", "average", "weak"}
    /\ pc \in {"reported", "answered"} =>
         /\ context.raised = None
         /\ context.dosha_analysis.mangal.present \in BOOLEAN
         /\ context.dosha_analysis.kalsarpa.present \in BOOLEAN

\* C20: chart generation rejects a latitude outside [-90, 90] or a longitude
\* outside [-180, 180]: a chart exists only for a birth place inside both
\* ranges, and a generation that failed failed with InvalidInput.
InvalidCoordinatesRejected ==
    /\ pc # "idle" =>
         /\ birth.latitude \in -90..90
         /\ birth.longitude \in -180..180
    /\ (pc = "idle" /\ error # None) => error = "InvalidInput"

\* C21: with a timezone string that names no zone the chart is built all the
\* same, and it is the chart built for the same civil date, time and place
\* with timezone 'UTC'.
UnknownTimezoneIsUTC ==
    (tz.pos = "both" /\ tz.timezone \notin DOMAIN ZoneOffsets) =>
        tz.chart = tz.utc_chart

\* C21 witness: 'IST' names no zone; its chart equals the UTC chart and is
\* not the chart Indian standard time would give
UnknownTimezoneIsUTCWitness ==
    /\ tz.pos = "both"
    /\ tz.timezone = "IST"
    /\ tz.chart = tz.utc_chart
    /\ tz.chart # Calculate(tz.birth_dt, "Asia/Kolkata")

\* C22: a Moon sign that is none of the twelve signs, for either person,
\* ends the scoring with an InvalidInput error and no score.
UnknownSignIsInvalidInput ==
    ( /\ mt.pos = "return"
      /\ (mt.boy_moon_sign \notin Signs \/ mt.girl_moon_sign \notin Signs) ) =>
        mt.result.raised = "InvalidInput"

\* a Moon sign that is none of the twelve signs never yields a score
UnknownSignYieldsNoScore ==
    ( /\ mt.pos = "return"
      /\ (mt.boy_moon_sign \notin Signs \/ mt.girl_moon_sign \notin Signs) ) =>
        mt.result.raised # None

\* the factors whose score may not depend on who is the boy
SymmetricFactors == {"Vashya", "Yoni", "Graha Maitri", "Gana", "Bhakoot", "Nadi"}

\* C30: exchanging the boy's and the girl's Moon positions leaves the
\* Vashya, Yoni, Graha Maitri, Gana, Bhakoot and Nadi scores unchanged.
SwapKeepsSymmetricFactors ==
    (mt.pos = "swapped" /\ mt.result.raised = None) =>
        /\ mt.swapped.raised = None
        /\ \A i \in 1..Len(mt.result.factors) :
             mt.result.factors[i].name \in SymmetricFactors =>
                /\ mt.swapped.factors[i].name = mt.result.factors[i].name
                /\ mt.swapped.factors[i].score = mt.result.factors[i].score

\* C30 witness: a pair of different Moons whose exchange changes the Varna
\* and the Tara score and leaves the total of the other six unchanged
SwapKeepsSymmetricFactorsWitness ==
    /\ mt.pos = "swapped"
    /\ mt.result.raised = None
    /\ mt.boy_moon_sign # mt.girl_moon_sign
    /\ mt.result.factors[1].score # mt.swapped.factors[1].score
    /\ mt.result.factors[3].score # mt.swapped.factors[3].score
    /\ mt.result.factors[5].score = mt.swapped.factors[5].score
    /\ mt.result.factors[5].score < 2 * 5

\* the degree lies in subdivision k of width span, boundaries included
InSubdivision(degree, k, span) ==
    k * span <= degree /\ degree <= (k + 1) * span

\* C23: for every sign and every degree in [0, 30) of the D1 chart, the D9
\* and the D10 position is one of the twelve signs with a degree in [0, 30).
DivisionalDegreesInRange ==
    dv.pos = "return" =>
        \A c \in DOMAIN dv.result.charts :
            LET d == dv.result.charts[c]
            IN  /\ d.ascendant.sign \in Signs
                /\ d.ascendant.degree \in 0..(SignSpan - 1)
                /\ \A n \in DOMAIN d.planets :
                     /\ d.planets[n].sign \in Signs
                     /\ d.planets[n].degree \in 0..(SignSpan - 1)

SadeSatiByOffset ==
    ss.pos = "return" =>
        LET offset == ((ss.saturn_lon \div SignSpan) - SignIndex(ss.natal_moon_sign)) % 12
            status == ss.result.status
        IN  /\ (offset = 11) <=> (status = "Sade Sati (Rising)")
            /\ (offset = 0) <=> (status = "Sade Sati (Peak)")
            /\ (offset = 1) <=> (status = "Sade Sati (Setting)")
            /\ (offset \in {3, 7}) <=> (status = "Dhaiya (Small Panoti)")
            /\ (offset \in {2, 4, 5, 6, 8, 9, 10}) <=> (status = "None")

\* C24 witness: Saturn in the eighth sign from the Moon, a Dhaiya
SadeSatiByOffsetWitness ==
    /\ ss.pos = "return"
    /\ ss.natal_moon_sign = "Leo"
    /\ ss.result.saturn_sign = "Pisces"
    /\ ss.result.status = "Dhaiya (Small Panoti)"

\* C25: changing a returned trigger never changes the chart, the derived
\* facts or the rules it was computed from.
MutationLeavesInputs ==
    [][ (rl.pos = "matched" /\ rl'.pos = "mutated") =>
          /\ rl'.kundali = rl.kundali
          /\ rl'.derived = rl.derived
          /\ rl'.rules = rl.rules ]_vars

\* changing a returned planet or dosha trigger leaves the inputs alone
MutationLeavesInputsButHouse ==
    [][ ( /\ rl.pos = "matched" /\ rl'.pos = "mutated"
          /\ rl.match.trigger.entity_type # "house" ) =>
          /\ rl'.kundali = rl.kundali
          /\ rl'.derived = rl.derived
          /\ rl'.rules = rl.rules ]_vars

\* the calendar day `years` calendar years after d: the same month and day,
\* and 28 February for a 29 February when that year is not a leap year
IsYearsAfter(e, d, years) ==
    /\ e.year = d.year + years
    /\ e.month = d.month
    /\ IF d.month = 2 /\ d.day = 29 /\ ~IsLeap(e.year)
       THEN e.day = 28
       ELSE e.day = d.day

\* C26: the Dasha timeline is contiguous and cyclically ordered: the first
\* period is the balance Mahadasha and starts on the birth date, every later
\* period starts on the date the previous one ends, the i-th period's lord is
\* the one at (startingLordIndex + i) mod 9 of the fixed order, every later
\* period ends its lord's full year-weight in calendar years after it starts
\* (29 February becoming 28 February in a year that is not a leap year), and
\* at least 8 full periods follow the balance period.
DashaTimelineContiguous ==
    vd.pos = "return" =>
        LET dashas == vd.dashas
            start == LordIndexOf(vd.moon_degree)
        IN  /\ Len(dashas) >= 1 + 8
            /\ dashas[1].start_date = vd.birth_date
            /\ dashas[1].lord = VimshottariOrder[start + 1]
            /\ \A i \in 2..Len(dashas) :
                 /\ dashas[i].start_date = dashas[i - 1].end_date
                 /\ dashas[i].lord = VimshottariOrder[((start + (i - 1)) % 9) + 1]
                 /\ dashas[i].duration_years = VimshottariYears[dashas[i].lord] * 100
                 /\ IsYearsAfter(dashas[i].end_date, dashas[i].start_date,
                                 VimshottariYears[dashas[i].lord])

\* a balance Mahadasha that ends on a 29 February, followed by a full period
\* that ends in a year that is not a leap year
DashaTimelineContiguousWitness ==
    /\ vd.pos = "return"
    /\ vd.dashas[1].end_date.month = 2
    /\ vd.dashas[1].end_date.day = 29
    /\ vd.dashas[2].start_date = vd.dashas[1].end_date
    /\ ~IsLeap(vd.dashas[2].end_date.year)
    /\ vd.dashas[2].end_date.day = 28
    /\ Len(vd.dashas) = 10

\* the timestamp a call asked for: its argument, or the time of the call
AskedFor(call) ==
    IF call.timestamp = {} THEN call.at ELSE ValueOf(call.timestamp)

\* C28: after any sequence of get_current calls for a kundali, each call
\* returns the transit chart and gochar computed for the timestamp it asked
\* for (the current time when none is given), also when an earlier call for
\* the same kundali with another timestamp was cached less than the TTL ago.
GetCurrentReturnsRequested ==
    ts.call # {} =>
        LET call == ValueOf(ts.call)
            result == ValueOf(ts.result)
        IN  /\ result.transit.timestamp = AskedFor(call)
            /\ result = TransitBuild(StoredChart(call.kundali_core_id),
                                     {AskedFor(call)}, call.at)

\* what does hold: a call answers with what the first call of the running
\* TTL window computed for that kundali, whatever timestamp it asks for
GetCurrentReturnsCached ==
    ts.call # {} =>
        LET call == ValueOf(ts.call)
            key == TransitKey(call.kundali_core_id)
        IN  /\ key \in DOMAIN ts.cache
            /\ ts.cache[key].value = ValueOf(ts.result)
            /\ call.at < ts.cache[key].expires

\* C29: quota enforcement holds under concurrency: for any interleaving of
\* requests by one user that each call assert_quota, do their work and then
\* log_usage, the number of usage entries logged for a feature in the
\* current month never exceeds the plan's quota for that feature.
QuotaNeverExceeded ==
    CountMonthlyUsage(billing.usage_log, "voice", billing.month)
        <= GetQuotaLimit(billing.sub, "voice")

\* what does hold: the entries logged exceed the quota by less than the
\* number of requests in flight
QuotaExceededByLessThanRequests ==
    CountMonthlyUsage(billing.usage_log, "voice", billing.month)
        <= GetQuotaLimit(billing.sub, "voice") + MaxRequests - 1

====
